---- MODULE Spec2Model ----
(***************************************************************************)
(* The graph-editing core of the node editor: GraphScene's node, port and  *)
(* connection model and its pointer/keyboard driven interaction handlers   *)
(* (src/bin/components/graph_scene.py).                                    *)
(*                                                                         *)
(* Objects are identified by their creation ordinal (a node is its index   *)
(* in `nodes`, a connection its index in `conns`); the integer the program *)
(* itself issues as node id is the field `id` of the node record.          *)
(* A text is a sequence of string tokens: "" is << >>, the label           *)
(* f"{name}.{slot}" is <<name, ".", slot>>.                                *)
(***************************************************************************)
EXTENDS Integers, Sequences, FiniteSets, TLC

\* ------------------------------------------------------------------ bounds
\* the number of user events (handler calls) a behaviour is followed for
MaxSteps == 5

VARIABLES
    node_seq,              \* GraphScene._node_seq
    nodes,                 \* every node item created so far (records)
    scene_nodes,           \* indices of the node items currently in the scene
    dead,                  \* indices of removed node items whose C++ object is destroyed
    conns,                 \* every ConnectionItem created so far
    plist,                 \* port -> its connection list, port.data(2)
    temp_connection,       \* GraphScene._temp_connection is not None
    temp_start_port,       \* GraphScene._temp_start_port
    reconnecting,          \* GraphScene._reconnecting
    reconnect_connection,  \* GraphScene._reconnect_connection (0: None)
    reconnect_end,         \* GraphScene._reconnect_end
    mouse_down,            \* the left button is held
    steps,                 \* number of events handled so far
    pre_field,             \* content of the destination field before the latest connect
    editor,                \* the text last passed to self._code_editor.set_code (<< >>: none yet)
    last,                  \* outcome of the latest handler: what it logged, how a gesture ended ("": nothing)
    is_connecting,         \* GraphView._is_connecting
    drag_mode,             \* GraphView.dragMode()
    is_panning,            \* GraphView._is_panning
    other_down,            \* the middle or the right button is held
    REGISTERED_NODES,      \* nodes.REGISTERED_NODES: node type -> node class
    returned,              \* what the latest call of a registry function returned or raised
    zoom_factor,           \* GraphView._zoom_factor, in thousandths
    view_scale,            \* the scale of the view's transform, in thousandths
    found,                 \* the latest call of _find_port_near: its arguments and its result
    executed               \* an IfNode and its latest call of execute: its inputs, its result

\* the state of the view and of the node registry
view_vars == <<is_connecting, drag_mode, is_panning, other_down>>
registry_vars == <<REGISTERED_NODES, returned>>
zoom_vars == <<zoom_factor, view_scale>>
call_vars == <<found, executed>>

vars == <<node_seq, nodes, scene_nodes, dead, conns, plist, temp_connection,
          temp_start_port, reconnecting, reconnect_connection, reconnect_end,
          mouse_down, steps, pre_field, editor, last, view_vars, registry_vars,
          zoom_vars, call_vars>>

\* ------------------------------------------------------------------- texts
EmptyText == << >>
UserTexts == { <<"x">> }
\* the for-bounds typed in the loop scenario
BoundTexts == { <<"0">>, <<"5">>, <<"1">> }
PlaceholderLabel == <<"Condition">>

\* ------------------------------------------------------------- node kinds
Names == {"Logic Control", "Condition", "Action Execution"}

\* the substring tests of create_node that pick the node's UI and ports
KindOf(name) ==
    IF name = "Logic Control" THEN "logic"
    ELSE IF name = "Condition" THEN "cond"
    ELSE "other"

\* features[0]: the combo's text after addItems
FirstFeature(name) ==
    IF name = "Logic Control" THEN "If"
    ELSE IF name = "Condition" THEN "Equal"
    ELSE "Lift Right Leg"

LogicSlots == {"flow_in", "condition", "for_start", "for_end", "for_step",
               "out_true", "out_false", "loop_body", "loop_end"}
CondSlots == {"left", "right", "result"}
OtherSlots == {"flow_in", "flow_out"}

FixedSlots(kind) ==
    IF kind = "logic" THEN LogicSlots
    ELSE IF kind = "cond" THEN CondSlots
    ELSE OtherSlots

\* ------------------------------------------------------------------- ports
\* A port object: n is its node, s its creation slot ("elif" / "out_elif" for
\* the ports of an elif row), u the row object it belongs to (0 for a fixed port).
NoPort == [n |-> 0, s |-> "none", u |-> 0]

Port(n, s, u) == [n |-> n, s |-> s, u |-> u]

\* port.data(1), as _mk_port is called for each slot
PortDir(p) ==
    IF p.s \in {"flow_in", "condition", "for_start", "for_end", "for_step",
                "left", "right", "elif"}
    THEN "in" ELSE "out"

\* f"elif_{i}" and f"out_elif_{i}"
ElifSlots ==
    <<"elif_0", "elif_1", "elif_2", "elif_3", "elif_4", "elif_5", "elif_6", "elif_7">>
OutElifSlots ==
    <<"out_elif_0", "out_elif_1", "out_elif_2", "out_elif_3", "out_elif_4", "out_elif_5",
      "out_elif_6", "out_elif_7">>
ElifSlot(i) == ElifSlots[i + 1]
OutElifSlot(i) == OutElifSlots[i + 1]

\* position (from 0) of row object u in the node's current rows, -1 when removed
RECURSIVE RowIndexFrom(_, _, _)
RowIndexFrom(rows, u, i) ==
    IF i > Len(rows) THEN -1
    ELSE IF rows[i].u = u THEN i - 1
    ELSE RowIndexFrom(rows, u, i + 1)

RowIndex(nd, u) == RowIndexFrom(nd.elifs, u, 1)

\* port.data(3): fixed at creation for a fixed port; for the ports of an elif
\* row the id _add_elif gave them or _reindex_elifs last wrote (the id of a
\* port whose row was removed is not tracked)
PortSlot(ns, p) ==
    LET i == RowIndex(ns[p.n], p.u) IN
    IF p.s \in {"elif", "out_elif"} /\ i >= 0
    THEN IF p.s = "elif" THEN ns[p.n].elifs[i + 1].slot ELSE ns[p.n].elifs[i + 1].out_slot
    ELSE p.s

\* the child port items of a node item
NodePorts(ns, n) ==
    { Port(n, s, 0) : s \in FixedSlots(KindOf(ns[n].name)) }
    \cup { Port(n, "elif", ns[n].elifs[i].u) : i \in DOMAIN ns[n].elifs }
    \cup { Port(n, "out_elif", ns[n].elifs[i].u) : i \in DOMAIN ns[n].elifs }

\* port.isVisible(), as left by _set_if_mode / _set_for_ports_visible / _set_loop_mode
PortVisible(ns, p) ==
    LET v == ns[p.n].vis IN
    IF KindOf(ns[p.n].name) # "logic" THEN TRUE
    ELSE IF p.s = "flow_in" THEN TRUE
    ELSE IF p.s = "condition" THEN v.cond_port
    ELSE IF p.s \in {"for_start", "for_end", "for_step"} THEN v.for_ports
    ELSE IF p.s \in {"out_true", "out_false"} THEN v.if_out
    ELSE IF p.s \in {"loop_body", "loop_end"} THEN v.loop_out
    ELSE v.elif

\* the ports itemAt / items(rect) can return: visible ports of nodes in the scene
ScenePorts ==
    { p \in UNION { NodePorts(nodes, n) : n \in scene_nodes } : PortVisible(nodes, p) }

\* isValid(port): the C++ object behind the wrapper still exists
PortValid(p) == p.n \notin dead

\* ------------------------------------------------------ logic node widgets
InitVis ==
    [cond_input |-> TRUE, cond_port |-> TRUE, if_out |-> TRUE, elif |-> TRUE,
     loop_out |-> TRUE, loop_row |-> TRUE, loop_combo |-> TRUE, add_btn |-> TRUE,
     for_ports |-> TRUE, for_inputs |-> TRUE, for_rows |-> TRUE]

_set_if_mode(v, enabled) ==
    [v EXCEPT !.cond_input = enabled, !.add_btn = enabled, !.elif = enabled,
              !.if_out = enabled, !.cond_port = enabled,
              !.loop_out = ~enabled, !.loop_row = ~enabled, !.for_rows = FALSE]

_set_for_ports_visible(v, enabled) ==
    [v EXCEPT !.for_inputs = enabled, !.for_ports = enabled, !.for_rows = enabled]

_set_loop_mode(v, loop_type) ==
    LET v1 == _set_if_mode(v, FALSE)
        v2 == [v1 EXCEPT !.loop_combo = TRUE, !.loop_out = TRUE,
                         !.cond_port = (loop_type # "For"), !.cond_input = FALSE]
    IN _set_for_ports_visible(v2, loop_type = "For")

_set_if_onlyMutant(v) ==
    _set_if_mode([v EXCEPT !.loop_combo = FALSE, !.loop_row = FALSE], TRUE)
_set_if_only(v) ==
    LET v1 == [v EXCEPT !.loop_combo = FALSE]
        v2 == _set_for_ports_visible(v1, FALSE)
        v3 == [v2 EXCEPT !.loop_row = FALSE]
    IN _set_if_mode(v3, TRUE)

\* "while loop".startswith("while")
IsWhileText(t) == t = "While Loop"

_on_mode_change(v, combo, loop_type) ==
    IF IsWhileText(combo) THEN _set_loop_mode(v, loop_type) ELSE _set_if_only(v)

\* str.lower() of the loop type combo's texts
Lower(t) == IF t = "While" THEN "while" ELSE IF t = "For" THEN "for" ELSE t

\* ------------------------------------------------------------------- nodes
InitParams ==
    [set |-> FALSE, condition_expr |-> EmptyText, elif_conditions |-> << >>,
     loop_type |-> "", for_start |-> EmptyText, for_end |-> EmptyText,
     for_step |-> EmptyText, ui_selection |-> "", input_expr |-> EmptyText]

\* ", ".join(parts) of _update_node_params for the left/right inputs
InputExpr(left, right) ==
    LET l == IF left # EmptyText THEN <<"left=">> \o left ELSE << >>
        r == IF right # EmptyText THEN <<"right=">> \o right ELSE << >>
    IN IF l # << >> /\ r # << >> THEN l \o <<", ">> \o r ELSE l \o r

_update_node_params(nd) ==
    LET k == KindOf(nd.name)
        p0 == [nd.params EXCEPT !.set = TRUE, !.ui_selection = nd.combo]
        p1 == IF k = "logic"
              THEN [p0 EXCEPT !.condition_expr = nd.cond_text,
                              !.elif_conditions = [i \in DOMAIN nd.elifs |-> nd.elifs[i].text],
                              !.loop_type = Lower(nd.loop_type),
                              !.for_start = nd.for_start,
                              !.for_end = nd.for_end,
                              !.for_step = nd.for_step]
              ELSE p0
        p2 == IF k = "cond"
              THEN [p1 EXCEPT !.input_expr = InputExpr(nd.left, nd.right)]
              ELSE p1
    IN [nd EXCEPT !.params = p2]

\* the node item create_node builds for `name`, with node id `id`
NewNode(name, id) ==
    [id |-> id, name |-> name, combo |-> FirstFeature(name), loop_type |-> "While",
     cond_text |-> EmptyText, cond_label |-> PlaceholderLabel,
     for_start |-> EmptyText, for_end |-> EmptyText, for_step |-> EmptyText,
     left |-> EmptyText, right |-> EmptyText,
     elifs |-> << >>, row_seq |-> 0,
     vis |-> IF KindOf(name) = "logic"
             THEN _on_mode_change(InitVis, FirstFeature(name), "While")
             ELSE InitVis,
     params |-> InitParams]

\* ----------------------------------------------------------- code generator
\* A generated text is the sequence of its lines, a line the sequence of the
\* tokens its f-string concatenates ("" is << >>).
Skeleton ==
    << <<"# Auto-generated code">>, <<"# Generated by Celebrimbor">>, << >>,
       <<"def execute_workflow():">> >>

Footer == << <<"if __name__ == '__main__':">>, <<"    execute_workflow()">> >>

\* self.items() restricted to node items: Qt.DescendingOrder is the default and
\* the node items are top-level items of equal z, so the item added last is first
SceneItemsMutant(sn) == [i \in DOMAIN nodes |-> Len(nodes) + 1 - i]
RECURSIVE SceneItems(_)
SceneItems(sn) ==
    IF sn = {} THEN << >>
    ELSE LET m == CHOOSE x \in sn : \A y \in sn : y <= x
         IN <<m>> \o SceneItems(sn \ {m})

\* f"    # {node['name']} (ID: {node['id']})"
HeaderLineMutant(nd) == <<"    # ", nd.name, " (ID: ", steps, ")">>
HeaderLine(nd) == <<"    # ", nd.name, " (ID: ", nd.id, ")">>

\* combo.currentText().lower().startswith("if")
IsIfText(t) == t = "If"

\* the first item of self.items() whose data(12) is the id
FindItem(ns, order, id) ==
    order[CHOOSE i \in DOMAIN order :
              /\ ns[order[i]].id = id
              /\ \A j \in 1..(i - 1) : ns[order[j]].id # id]

\* the "for:" line, emitted when the loop type combo reads "For"
ForLinesMutant(it) ==
    << <<"    # for: start=">> \o it.for_start \o <<", end=">> \o it.for_end
           \o <<", step=">> \o it.for_step >>
ForLines(it) ==
    IF it.loop_type = "For"
    THEN << <<"    # for: start=">> \o it.for_start \o <<", end=">> \o it.for_end
                \o <<", step=">> \o it.for_step >>
    ELSE << >>

\* "Logic control details" for item it, is_if taken from the listed node's combo
LogicLines(it, combo) ==
    << <<"    # condition: ">> \o it.cond_text >>
    \o (IF IsIfText(combo)
        THEN [i \in DOMAIN it.elifs |-> <<"    # elif_", i - 1, ": ">> \o it.elifs[i].text]
        ELSE << <<"    # loop_type: ", it.loop_type>> >> \o ForLines(it))

\* "Condition/comparison details"
CondLines(it) ==
    << <<"    # left: ">> \o it.left, <<"    # right: ">> \o it.right >>

\* the lines one pass of "for node in nodes" appends
NodeLines(ns, order, n) ==
    LET nd == ns[n]
        it == ns[FindItem(ns, order, nd.id)]
    IN <<HeaderLine(nd), <<"    # Action: ", nd.combo>>>>
       \o (IF KindOf(nd.name) = "logic" THEN LogicLines(it, nd.combo) ELSE << >>)
       \o (IF KindOf(nd.name) = "cond" THEN CondLines(it) ELSE << >>)
       \o << << >> >>

RECURSIVE BodyLines(_, _, _)
BodyLines(ns, order, i) ==
    IF i > Len(order) THEN << >>
    ELSE NodeLines(ns, order, order[i]) \o BodyLines(ns, order, i + 1)

\* regenerate_code: the lines joined and passed to set_code, for node items ns
\* of which those in sn are in the scene
code_lines(ns, sn) ==
    Skeleton \o BodyLines(ns, SceneItems(sn), 1) \o Footer

\* self._node_seq += 1
NextSeqMutant(s) == s
NextSeq(s) == s + 1

\* --------------------------------------------------------- view and registry
\* GraphView.__init__: rubber-band selection, no gesture, no panning
InitView ==
    /\ is_connecting = FALSE
    /\ drag_mode = "RubberBandDrag"
    /\ is_panning = FALSE
    /\ other_down = FALSE

\* the six node types nodes/__init__.py registers at import
BuiltinKinds ==
    {"action_execution", "stop", "if", "while_loop", "comparison", "sensor_input"}

BuiltinClass(kind) ==
    IF kind = "action_execution" THEN "ActionExecutionNode"
    ELSE IF kind = "stop" THEN "StopNode"
    ELSE IF kind = "if" THEN "IfNode"
    ELSE IF kind = "while_loop" THEN "WhileLoopNode"
    ELSE IF kind = "comparison" THEN "ComparisonNode"
    ELSE "SensorInputNode"

\* no registry function was called yet
NoResult == [raised |-> FALSE, cls |-> "", node_id |-> "", node_type |-> ""]

\* the registry after the import of nodes (CUSTOM_NODES is empty)
InitRegistry ==
    /\ REGISTERED_NODES = [k \in BuiltinKinds |-> BuiltinClass(k)]
    /\ returned = NoResult

\* GraphView.__init__: no zoom (factor 1.0, identity transform)
InitZoom ==
    /\ zoom_factor = 1000
    /\ view_scale = 1000

\* _find_port_near was not called yet
NotCalled == [called |-> FALSE]

\* IfNode.__init__: no elif branch; execute was not called yet
NewIfNode == [called |-> FALSE, elifs |-> 0, inputs |-> << >>, result |-> << >>]

InitCalls ==
    /\ found = NotCalled
    /\ executed = NewIfNode

\* a scene handler leaves the view and the registry alone
SceneOnly == UNCHANGED <<view_vars, registry_vars, zoom_vars, call_vars>>

\* -------------------------------------------------------------------- Init
Init ==
    /\ node_seq = 0
    /\ nodes = << >>
    /\ scene_nodes = {}
    /\ dead = {}
    /\ conns = << >>
    /\ plist = << >>
    /\ temp_connection = FALSE
    /\ temp_start_port = NoPort
    /\ reconnecting = FALSE
    /\ reconnect_connection = 0
    /\ reconnect_end = "none"
    /\ mouse_down = FALSE
    /\ steps = 0
    /\ pre_field = EmptyText
    /\ editor = << >>
    /\ last = "init"
    /\ InitView
    /\ InitRegistry
    /\ InitZoom
    /\ InitCalls

\* every handler call counts as one event
Tick == steps < MaxSteps /\ steps' = steps + 1

\* ------------------------------------------------------------- create_node
create_node(name) ==
    /\ Tick
    /\ ~mouse_down
    /\ LET n == Len(nodes) + 1
           nd == NewNode(name, node_seq)
       IN /\ nodes' = Append(nodes, nd)
          /\ scene_nodes' = scene_nodes \cup {n}
          /\ plist' = plist @@ [p \in NodePorts(nodes', n) |-> << >>]
    /\ node_seq' = NextSeq(node_seq)
    /\ pre_field' = pre_field
    /\ editor' = code_lines(nodes', scene_nodes')
    /\ last' = "create_node"
    /\ UNCHANGED <<dead, conns, temp_connection, temp_start_port, reconnecting,
                   reconnect_connection, reconnect_end, mouse_down>>

\* ------------------------------------------------- connection bookkeeping
\* list.remove(c): drops the first occurrence
RECURSIVE RemoveFirst(_, _)
RemoveFirst(seq, c) ==
    IF seq = << >> THEN << >>
    ELSE IF Head(seq) = c THEN Tail(seq)
    ELSE <<Head(seq)>> \o RemoveFirst(Tail(seq), c)

InList(seq, c) == \E i \in DOMAIN seq : seq[i] = c

\* the entries of a port list whose connection is still in a scene
RECURSIVE Cleaned(_, _)
Cleaned(seq, cs) ==
    IF seq = << >> THEN << >>
    ELSE IF cs[Head(seq)].live THEN <<Head(seq)>> \o Cleaned(Tail(seq), cs)
    ELSE Cleaned(Tail(seq), cs)

_attach_connection_safe(pl, cs, p, c) ==
    [pl EXCEPT ![p] = Append(Cleaned(pl[p], cs), c)]

LabelMutant(ns, out_port) == <<PortSlot(ns, out_port)>>
_format_connection_label(ns, out_port) ==
    <<ns[out_port.n].name, ".", PortSlot(ns, out_port)>>

\* the node item after text `t` is written to the widget the in-slot names
SetSlotText(nd, slot, row, t) ==
    IF slot = "condition"
    THEN IF nd.vis.cond_input
         THEN [nd EXCEPT !.cond_text = t]
         ELSE nd
    ELSE IF slot = "elif" THEN [nd EXCEPT !.elifs[row + 1].text = t]
    ELSE IF slot = "for_start" THEN [nd EXCEPT !.for_start = t]
    ELSE IF slot = "for_end" THEN [nd EXCEPT !.for_end = t]
    ELSE IF slot = "for_step" THEN [nd EXCEPT !.for_step = t]
    ELSE IF slot = "left" THEN [nd EXCEPT !.left = t]
    ELSE IF slot = "right" THEN [nd EXCEPT !.right = t]
    ELSE nd

\* the row an elif in-port writes to; a removed row has no input any more
HasField(nd, p) == p.s # "elif" \/ RowIndex(nd, p.u) >= 0

_apply_connection_to_input(ns, in_port, out_port) ==
    LET nd == ns[in_port.n]
        label == _format_connection_label(ns, out_port)
        nd1 == IF ~HasField(nd, in_port) THEN nd
               ELSE IF in_port.s = "condition" /\ ~nd.vis.cond_input
               THEN [nd EXCEPT !.cond_label = label]
               ELSE SetSlotText(nd, in_port.s, RowIndex(nd, in_port.u), label)
    IN [ns EXCEPT ![in_port.n] = _update_node_params(nd1)]

ClearMutant(ns, in_port) == ns
_clear_input_for_port(ns, in_port) ==
    LET nd == ns[in_port.n]
        nd1 == IF ~HasField(nd, in_port) THEN nd
               ELSE IF in_port.s = "condition" /\ ~nd.vis.cond_input
               THEN [nd EXCEPT !.cond_label = PlaceholderLabel]
               ELSE SetSlotText(nd, in_port.s, RowIndex(nd, in_port.u), EmptyText)
    IN [ns EXCEPT ![in_port.n] = _update_node_params(nd1)]

\* the text of the input widget an in-port feeds, "" for a port without one
FieldOf(ns, p) ==
    LET nd == ns[p.n] IN
    IF p.s = "condition" THEN nd.cond_text
    ELSE IF p.s = "elif" /\ RowIndex(nd, p.u) >= 0 THEN nd.elifs[RowIndex(nd, p.u) + 1].text
    ELSE IF p.s = "for_start" THEN nd.for_start
    ELSE IF p.s = "for_end" THEN nd.for_end
    ELSE IF p.s = "for_step" THEN nd.for_step
    ELSE IF p.s = "left" THEN nd.left
    ELSE IF p.s = "right" THEN nd.right
    ELSE EmptyText

\* ------------------------------------------------------------ mouse press
\* press on a port: _start_connection
press_port(p) ==
    /\ Tick
    /\ ~mouse_down
    /\ p \in ScenePorts
    /\ mouse_down' = TRUE
    /\ temp_start_port' = p
    /\ temp_connection' = TRUE
    /\ pre_field' = pre_field
    /\ editor' = editor
    /\ last' = ""
    /\ UNCHANGED <<node_seq, nodes, scene_nodes, dead, conns, plist, reconnecting,
                   reconnect_connection, reconnect_end>>

\* press on an endpoint marker of a connection in the scene: _start_reconnection
\* (_port_center raises on a None or destroyed port, after the flags are set)
press_marker(c, end_type) ==
    /\ Tick
    /\ ~mouse_down
    /\ c \in DOMAIN conns
    /\ conns[c].live
    /\ mouse_down' = TRUE
    /\ reconnecting' = TRUE
    /\ reconnect_connection' = c
    /\ reconnect_end' = end_type
    /\ LET grabbed == IF end_type = "start" THEN conns[c].out ELSE conns[c].in IN
       /\ temp_start_port' = grabbed
       /\ conns' = IF end_type = "start"
                   THEN [conns EXCEPT ![c].out = NoPort]
                   ELSE [conns EXCEPT ![c].in = NoPort]
       /\ IF grabbed = NoPort \/ ~PortValid(grabbed)
          THEN /\ temp_connection' = temp_connection
               /\ last' = "press_marker_raised"
          ELSE /\ temp_connection' = TRUE
               /\ last' = "press_marker"
    /\ pre_field' = pre_field
    /\ editor' = editor
    /\ UNCHANGED <<node_seq, nodes, scene_nodes, dead, plist>>

\* press elsewhere: the default handling of QGraphicsScene
press_canvas ==
    /\ Tick
    /\ ~mouse_down
    /\ mouse_down' = TRUE
    /\ pre_field' = pre_field
    /\ editor' = editor
    /\ last' = ""
    /\ UNCHANGED <<node_seq, nodes, scene_nodes, dead, conns, plist, temp_connection,
                   temp_start_port, reconnecting, reconnect_connection,
                   reconnect_end>>

\* ---------------------------------------------------------- mouse release
\* the comparison start_io == target_io of the two finish handlers
SameDirectionMutant(a, b) == FALSE
SameDirection(a, b) == PortDir(a) = PortDir(b)

\* _cancel_connection
CancelConnectionMutant(tag) ==
    /\ temp_connection' = temp_connection
    /\ temp_start_port' = NoPort
    /\ pre_field' = pre_field
    /\ editor' = editor
    /\ last' = tag
    /\ UNCHANGED <<node_seq, nodes, scene_nodes, dead, conns, plist, reconnecting,
                   reconnect_connection, reconnect_end>>
CancelConnection(tag) ==
    /\ temp_connection' = FALSE
    /\ temp_start_port' = NoPort
    /\ pre_field' = pre_field
    /\ editor' = editor
    /\ last' = tag
    /\ UNCHANGED <<node_seq, nodes, scene_nodes, dead, conns, plist, reconnecting,
                   reconnect_connection, reconnect_end>>

\* _finish_connection(target) and the _create_connection it calls
_finish_connection(target) ==
    IF temp_start_port = NoPort
    THEN CancelConnection("connect_cancel")
    ELSE IF ~PortValid(temp_start_port)
    THEN \* .data(1) of a destroyed item raises; nothing was changed yet
         /\ last' = "connect_raised"
         /\ pre_field' = pre_field
         /\ editor' = editor
         /\ UNCHANGED <<node_seq, nodes, scene_nodes, dead, conns, plist,
                        temp_connection, temp_start_port, reconnecting,
                        reconnect_connection, reconnect_end>>
    ELSE IF SameDirection(temp_start_port, target)
    THEN CancelConnection("connect_rejected")
    ELSE LET out_port == IF PortDir(temp_start_port) = "out" THEN temp_start_port ELSE target
             in_port == IF PortDir(temp_start_port) = "out" THEN target ELSE temp_start_port
             c == Len(conns) + 1
             cs == Append(conns, [out |-> out_port, in |-> in_port, live |-> TRUE])
             pl1 == _attach_connection_safe(plist, cs, out_port, c)
             pl2 == _attach_connection_safe(pl1, cs, in_port, c)
         IN /\ conns' = cs
            /\ plist' = pl2
            /\ nodes' = _apply_connection_to_input(nodes, in_port, out_port)
            /\ pre_field' = FieldOf(nodes, in_port)
            /\ editor' = code_lines(nodes', scene_nodes)
            /\ temp_connection' = FALSE
            /\ temp_start_port' = NoPort
            /\ last' = "connect"
            /\ UNCHANGED <<node_seq, scene_nodes, dead, reconnecting,
                           reconnect_connection, reconnect_end>>

\* _cancel_reconnection: the grabbed connection is left as it is
CancelReconnection(tag) ==
    /\ reconnect_connection' = 0
    /\ temp_connection' = FALSE
    /\ temp_start_port' = NoPort
    /\ reconnecting' = FALSE
    /\ pre_field' = pre_field
    /\ editor' = editor
    /\ last' = tag
    /\ UNCHANGED <<node_seq, nodes, scene_nodes, dead, conns, plist, reconnect_end>>

\* a removed elif port has no parent item any more
PortParented(ns, p) == p.s \notin {"elif", "out_elif"} \/ RowIndex(ns[p.n], p.u) >= 0

\* the endpoint assignment of _finish_reconnection ("Update connection ports")
Rebound(cs, rc, end_type, start_io, target) ==
    IF end_type = "start"
    THEN IF start_io = "out"
         THEN [cs EXCEPT ![rc].out = target]
         ELSE [cs EXCEPT ![rc].in = target]
    ELSE IF start_io = "out"
         THEN [cs EXCEPT ![rc].in = target]
         ELSE [cs EXCEPT ![rc].out = target]

_finish_reconnection(target) ==
    IF reconnect_connection = 0
    THEN CancelReconnection("reconnect_cancel")
    ELSE IF temp_start_port = NoPort \/ ~PortValid(temp_start_port)
    THEN \* .data(1) of None or of a destroyed item raises; nothing was changed yet
         /\ last' = "reconnect_raised"
         /\ pre_field' = pre_field
         /\ editor' = editor
         /\ UNCHANGED <<node_seq, nodes, scene_nodes, dead, conns, plist,
                        temp_connection, temp_start_port, reconnecting,
                        reconnect_connection, reconnect_end>>
    ELSE IF SameDirection(temp_start_port, target)
    THEN CancelReconnection("reconnect_rejected")
    ELSE LET rc == reconnect_connection
             cs == Rebound(conns, rc, reconnect_end, PortDir(temp_start_port), target)
             pl == _attach_connection_safe(plist, cs, target, rc)
             both == cs[rc].in # NoPort /\ cs[rc].out # NoPort
             \* parentItem() of a destroyed port raises inside _apply_connection_to_input
             raises == both /\ (~PortValid(cs[rc].in)
                                \/ (PortParented(nodes, cs[rc].in) /\ ~PortValid(cs[rc].out)))
         IN /\ conns' = cs
            /\ plist' = pl
            /\ pre_field' = pre_field
            /\ IF raises
               THEN /\ last' = "reconnect_raised"
                    /\ UNCHANGED <<node_seq, nodes, scene_nodes, dead, temp_connection,
                                   temp_start_port, reconnecting, reconnect_connection,
                                   reconnect_end, editor>>
               ELSE /\ nodes' = IF both /\ PortParented(nodes, cs[rc].in)
                                THEN _apply_connection_to_input(nodes, cs[rc].in, cs[rc].out)
                                ELSE nodes
                    /\ reconnect_connection' = 0
                    /\ temp_connection' = FALSE
                    /\ temp_start_port' = NoPort
                    /\ reconnecting' = FALSE
                    /\ last' = "reconnect"
                    /\ editor' = code_lines(nodes', scene_nodes)
                    /\ UNCHANGED <<node_seq, scene_nodes, dead, reconnect_end>>

\* GraphScene.mouseReleaseEvent, whatever button was released; target is what
\* _find_port_near returns (NoPort: None)
mouseReleaseEvent(target) ==
    IF reconnecting
    THEN IF target # NoPort
         THEN _finish_reconnection(target)
         ELSE CancelReconnection("reconnect_cancel")
    ELSE IF temp_connection
    THEN IF target # NoPort /\ target # temp_start_port
         THEN _finish_connection(target)
         ELSE CancelConnection("connect_cancel")
    ELSE /\ last' = ""
         /\ pre_field' = pre_field
         /\ editor' = editor
         /\ UNCHANGED <<node_seq, nodes, scene_nodes, dead, conns, plist,
                        temp_connection, temp_start_port, reconnecting,
                        reconnect_connection, reconnect_end>>

\* the left button is released over target
mouse_release(target) ==
    /\ Tick
    /\ mouse_down
    /\ target \in ScenePorts \cup {NoPort}
    /\ mouse_down' = FALSE
    /\ mouseReleaseEvent(target)

\* ------------------------------------------------------------------ delete
LiveConns == { c \in DOMAIN conns : conns[c].live }

\* _delete_node_connections: the connections in the lists of the node's ports
\* that are still in the scene
NodeConnsMutant(n) ==
    { c \in LiveConns : \E p \in NodePorts(nodes, n) :
                            PortDir(p) = "out" /\ InList(plist[p], c) }
NodeConns(n) ==
    { c \in LiveConns : \E p \in NodePorts(nodes, n) : InList(plist[p], c) }

\* _detach_connection on the pair <<port lists, node items>>
_detach_connection(st, c) ==
    LET o == conns[c].out
        i == conns[c].in
        pl1 == IF o # NoPort /\ PortValid(o)
               THEN [st[1] EXCEPT ![o] = RemoveFirst(@, c)] ELSE st[1]
        pl2 == IF i # NoPort /\ PortValid(i)
               THEN [pl1 EXCEPT ![i] = RemoveFirst(@, c)] ELSE pl1
        ns1 == IF i # NoPort /\ PortValid(i) /\ PortParented(st[2], i)
               THEN _clear_input_for_port(st[2], i) ELSE st[2]
    IN <<pl2, ns1>>

RECURSIVE DetachAll(_, _)
DetachAll(st, cset) ==
    IF cset = {} THEN st
    ELSE LET c == CHOOSE x \in cset : \A y \in cset : x <= y
         IN DetachAll(_detach_connection(st, c), cset \ {c})

\* A removed node item is owned by Python again. The handlers create_node connects
\* for a Logic Control or Condition node (lambda _t: self._update_node_params(rect))
\* keep the item referenced; any other item loses its last reference when
\* keyPressEvent returns and is destroyed together with its child ports.
KeptAlive(name) == KindOf(name) \in {"logic", "cond"}

\* keyPressEvent(Delete / Backspace) with selection selN, selC: _delete_items
key_delete(selN, selC) ==
    /\ Tick
    /\ selN \subseteq scene_nodes
    /\ selC \subseteq LiveConns
    /\ selN \cup selC # {}
    /\ LET gone == selC \cup UNION { NodeConns(n) : n \in selN }
           st == DetachAll(<<plist, nodes>>, selC)
       IN /\ conns' = [c \in DOMAIN conns |->
                          IF c \in gone THEN [conns[c] EXCEPT !.live = FALSE] ELSE conns[c]]
          /\ plist' = st[1]
          /\ nodes' = st[2]
    /\ scene_nodes' = scene_nodes \ selN
    /\ dead' = dead \cup { n \in selN : ~KeptAlive(nodes[n].name) }
    /\ pre_field' = pre_field
    /\ editor' = code_lines(nodes', scene_nodes')
    /\ last' = "delete"
    /\ UNCHANGED <<node_seq, temp_connection, temp_start_port, reconnecting,
                   reconnect_connection, reconnect_end, mouse_down>>

\* ------------------------------------------------------------- elif rows
\* row objects something still refers to: current rows, endpoints, the start port
UsedRows(n) ==
    { nodes[n].elifs[i].u : i \in DOMAIN nodes[n].elifs }
    \cup { conns[c].out.u : c \in { x \in DOMAIN conns : conns[x].out.n = n } }
    \cup { conns[c].in.u : c \in { x \in DOMAIN conns : conns[x].in.n = n } }
    \cup (IF temp_start_port.n = n THEN {temp_start_port.u} ELSE {})

FreshRow(n) == CHOOSE u \in 1..(2 * MaxSteps) : u \notin UsedRows(n)

\* _reindex_elifs: the ports of the i-th row get the ids elif_i and out_elif_i
_reindex_elifsMutant(rows) == rows
_reindex_elifs(rows) ==
    [i \in DOMAIN rows |->
        [rows[i] EXCEPT !.slot = ElifSlot(i - 1), !.out_slot = OutElifSlot(i - 1)]]

\* click on "+elif": _add_elif
add_elif(n) ==
    /\ Tick
    /\ ~mouse_down
    /\ n \in scene_nodes
    /\ KindOf(nodes[n].name) = "logic"
    /\ nodes[n].vis.add_btn
    /\ LET u == FreshRow(n)
           idx == Len(nodes[n].elifs)
       IN
       /\ nodes' = [nodes EXCEPT ![n].elifs =
                        Append(@, [u |-> u, text |-> EmptyText,
                                   slot |-> ElifSlot(idx), out_slot |-> OutElifSlot(idx)])]
       /\ plist' = [p \in {Port(n, "elif", u), Port(n, "out_elif", u)} |-> << >>] @@ plist
    /\ pre_field' = pre_field
    /\ editor' = code_lines(nodes', scene_nodes)
    /\ last' = ""
    /\ UNCHANGED <<node_seq, scene_nodes, dead, conns, temp_connection, temp_start_port,
                   reconnecting, reconnect_connection, reconnect_end, mouse_down>>

\* rect._elif_rows.pop(idx_local) and its sibling lists
RemoveAt(seq, i) == [j \in 1..(Len(seq) - 1) |-> IF j < i THEN seq[j] ELSE seq[j + 1]]

\* click on the "X" of row i (from 1): _remove_this
remove_elif(n, i) ==
    /\ Tick
    /\ ~mouse_down
    /\ n \in scene_nodes
    /\ KindOf(nodes[n].name) = "logic"
    /\ nodes[n].vis.elif
    /\ i \in DOMAIN nodes[n].elifs
    /\ LET u == nodes[n].elifs[i].u
           \* _remove_port_connections of the row's two ports
           gone == { c \in LiveConns : InList(plist[Port(n, "elif", u)], c)
                                       \/ InList(plist[Port(n, "out_elif", u)], c) }
       IN /\ conns' = [c \in DOMAIN conns |->
                          IF c \in gone THEN [conns[c] EXCEPT !.live = FALSE] ELSE conns[c]]
          /\ nodes' = [nodes EXCEPT ![n].elifs = _reindex_elifs(RemoveAt(@, i))]
    /\ pre_field' = pre_field
    /\ editor' = code_lines(nodes', scene_nodes)
    /\ last' = ""
    /\ UNCHANGED <<node_seq, scene_nodes, dead, plist, temp_connection, temp_start_port,
                   reconnecting, reconnect_connection, reconnect_end, mouse_down>>

\* ------------------------------------------------------------ mode combos
\* combo.currentTextChanged: _on_mode_change, then _update_node_params
set_mode(n, text) ==
    /\ Tick
    /\ ~mouse_down
    /\ n \in scene_nodes
    /\ KindOf(nodes[n].name) = "logic"
    /\ text \in {"If", "While Loop"}
    /\ text # nodes[n].combo
    /\ LET nd == nodes[n]
           nd1 == [nd EXCEPT !.combo = text,
                             !.vis = _on_mode_change(nd.vis, text, nd.loop_type)]
       IN nodes' = [nodes EXCEPT ![n] = _update_node_params(nd1)]
    /\ pre_field' = pre_field
    /\ editor' = code_lines(nodes', scene_nodes)
    /\ last' = ""
    /\ UNCHANGED <<node_seq, scene_nodes, dead, conns, plist, temp_connection,
                   temp_start_port, reconnecting, reconnect_connection, reconnect_end,
                   mouse_down>>

\* loop_type_combo.currentTextChanged: _set_loop_mode, then _update_node_params
set_loop_type(n, text) ==
    /\ Tick
    /\ ~mouse_down
    /\ n \in scene_nodes
    /\ KindOf(nodes[n].name) = "logic"
    /\ nodes[n].vis.loop_combo /\ nodes[n].vis.loop_row
    /\ text \in {"While", "For"}
    /\ text # nodes[n].loop_type
    /\ LET nd == nodes[n]
           nd1 == [nd EXCEPT !.loop_type = text, !.vis = _set_loop_mode(nd.vis, text)]
       IN nodes' = [nodes EXCEPT ![n] = _update_node_params(nd1)]
    /\ pre_field' = pre_field
    /\ editor' = code_lines(nodes', scene_nodes)
    /\ last' = ""
    /\ UNCHANGED <<node_seq, scene_nodes, dead, conns, plist, temp_connection,
                   temp_start_port, reconnecting, reconnect_connection, reconnect_end,
                   mouse_down>>

\* ------------------------------------------------------------- text edits
\* the line edit an in-port's slot names is shown
FieldVisible(nd, p) ==
    IF p.s = "condition" THEN nd.vis.cond_input
    ELSE IF p.s = "elif" THEN nd.vis.elif
    ELSE IF p.s \in {"for_start", "for_end", "for_step"}
         THEN nd.vis.for_inputs /\ nd.vis.for_rows
    ELSE p.s \in {"left", "right"}

\* the user types text t into the field of port p: textChanged -> _update_node_params
edit_field(p, t) ==
    /\ Tick
    /\ ~mouse_down
    /\ p.n \in scene_nodes
    /\ p \in NodePorts(nodes, p.n)
    /\ FieldVisible(nodes[p.n], p)
    /\ t \in UserTexts \cup BoundTexts \cup {EmptyText}
    /\ t # FieldOf(nodes, p)
    /\ LET nd == nodes[p.n]
           nd1 == SetSlotText(nd, p.s, RowIndex(nd, p.u), t)
       IN nodes' = [nodes EXCEPT ![p.n] = _update_node_params(nd1)]
    /\ pre_field' = pre_field
    /\ editor' = editor
    /\ last' = ""
    /\ UNCHANGED <<node_seq, scene_nodes, dead, conns, plist, temp_connection,
                   temp_start_port, reconnecting, reconnect_connection, reconnect_end,
                   mouse_down>>

\* ---------------------------------------------------------- regenerate_code
\* a call of regenerate_code on its own
regenerate_code ==
    /\ Tick
    /\ editor' = code_lines(nodes, scene_nodes)
    /\ last' = IF last \in {"regenerate", "regenerate_twice"}
               THEN "regenerate_twice" ELSE "regenerate"
    /\ UNCHANGED <<node_seq, nodes, scene_nodes, dead, conns, plist, temp_connection,
                   temp_start_port, reconnecting, reconnect_connection, reconnect_end,
                   mouse_down, pre_field>>

\* ------------------------------------------------------------ the machine
AllPorts == UNION { NodePorts(nodes, n) : n \in DOMAIN nodes }

Next ==
    \/ \E name \in Names : create_node(name) /\ SceneOnly
    \/ \E p \in ScenePorts : press_port(p) /\ SceneOnly
    \/ \E c \in DOMAIN conns : \E e \in {"start", "end"} : press_marker(c, e) /\ SceneOnly
    \/ press_canvas /\ SceneOnly
    \/ \E t \in ScenePorts \cup {NoPort} : mouse_release(t) /\ SceneOnly
    \/ \E selN \in SUBSET scene_nodes : \E selC \in SUBSET LiveConns : key_delete(selN, selC) /\ SceneOnly
    \/ \E n \in scene_nodes : add_elif(n) /\ SceneOnly
    \/ \E n \in scene_nodes : \E i \in DOMAIN nodes[n].elifs : remove_elif(n, i) /\ SceneOnly
    \/ \E n \in scene_nodes : \E text \in {"If", "While Loop"} : set_mode(n, text) /\ SceneOnly
    \/ \E n \in scene_nodes : \E text \in {"While", "For"} : set_loop_type(n, text) /\ SceneOnly
    \/ \E p \in AllPorts : \E t \in UserTexts \cup {EmptyText} : edit_field(p, t) /\ SceneOnly
    \/ regenerate_code /\ SceneOnly

Spec == Init /\ [][Next]_vars

\* ------------------------------------------------------- the loop scenario
\* the node item after a "While Loop" card was dropped: create_node, then
\* combo.setCurrentText(preset)
LoopNode ==
    LET nd == NewNode("Logic Control", 0)
        nd1 == [nd EXCEPT !.combo = "While Loop",
                          !.vis = _on_mode_change(nd.vis, "While Loop", nd.loop_type)]
    IN _update_node_params(nd1)

InitLoop ==
    /\ node_seq = NextSeq(0)
    /\ nodes = <<LoopNode>>
    /\ scene_nodes = {1}
    /\ dead = {}
    /\ conns = << >>
    /\ plist = [p \in NodePorts(<<LoopNode>>, 1) |-> << >>]
    /\ temp_connection = FALSE
    /\ temp_start_port = NoPort
    /\ reconnecting = FALSE
    /\ reconnect_connection = 0
    /\ reconnect_end = "none"
    /\ mouse_down = FALSE
    /\ steps = 0
    /\ pre_field = EmptyText
    /\ editor = code_lines(<<LoopNode>>, {1})
    /\ last = ""
    /\ InitView
    /\ InitRegistry
    /\ InitZoom
    /\ InitCalls

\* the loop type combo, the three for-bound inputs and regenerate_code
NextLoop ==
    \/ \E text \in {"While", "For"} : set_loop_type(1, text) /\ SceneOnly
    \/ \E s \in {"for_start", "for_end", "for_step"} :
           \E t \in BoundTexts \cup {EmptyText} : edit_field(Port(1, s, 0), t) /\ SceneOnly
    \/ regenerate_code /\ SceneOnly

SpecLoop == InitLoop /\ [][NextLoop]_vars

\* ------------------------------------------------------- the node registry
\* every variable of the scene but the event counter
scene_vars == <<node_seq, nodes, scene_nodes, dead, conns, plist, temp_connection,
                temp_start_port, reconnecting, reconnect_connection, reconnect_end,
                mouse_down, pre_field, editor, last>>

\* the node_type each node class passes to BaseNode.__init__
NodeTypeOf(cls) ==
    IF cls = "ActionExecutionNode" THEN "action_execution"
    ELSE IF cls = "StopNode" THEN "stop"
    ELSE IF cls = "IfNode" THEN "if"
    ELSE IF cls = "WhileLoopNode" THEN "while_loop"
    ELSE IF cls = "ComparisonNode" THEN "comparison"
    ELSE IF cls = "SensorInputNode" THEN "sensor_input"
    ELSE "my_custom"

\* the arguments the registry functions are called with
RegisterKinds == {"if", "my_custom"}
RegisterClasses == {"IfNode", "WhileLoopNode", "MyCustomNode"}
CreateKinds == BuiltinKinds \cup {"my_custom", "teleport"}
NodeIds == {"n1", "n2"}

\* REGISTERED_NODES[node_type] = node_class
RegistryPut(reg, node_type, node_class) ==
    [k \in DOMAIN reg \cup {node_type} |-> IF k = node_type THEN node_class ELSE reg[k]]

\* register_node(node_type, node_class): returns None, never raises
register_node(node_type, node_class) ==
    /\ Tick
    /\ REGISTERED_NODES' = RegistryPut(REGISTERED_NODES, node_type, node_class)
    /\ returned' = NoResult
    /\ UNCHANGED <<scene_vars, view_vars, zoom_vars, call_vars>>

\* REGISTERED_NODES.get(node_type): "" stands for None
get_node_class(reg, node_type) ==
    IF node_type \in DOMAIN reg THEN reg[node_type] ELSE ""

\* nodes.create_node(node_type, node_id): node_class(node_id), or ValueError
nodes_create_node(node_type, node_id) ==
    /\ Tick
    /\ LET node_class == get_node_class(REGISTERED_NODES, node_type) IN
       returned' = IF node_class = ""
                   THEN [NoResult EXCEPT !.raised = TRUE]
                   ELSE [raised |-> FALSE, cls |-> node_class, node_id |-> node_id,
                         node_type |-> NodeTypeOf(node_class)]
    /\ UNCHANGED <<REGISTERED_NODES, scene_vars, view_vars, zoom_vars, call_vars>>

\* the dicts get_custom_nodes() may return: CUSTOM_NODES as filled in by hand
\* and by discover_custom_nodes
CustomKinds == {"if", "my_custom"}
CustomClasses == {"MyCustomNode", "WhileLoopNode"}
CustomDicts == UNION { [S -> CustomClasses] : S \in SUBSET CustomKinds }

\* load_custom_nodes registering every custom node, registered before or not
load_custom_nodesMutant(custom) ==
    /\ Tick
    /\ REGISTERED_NODES' =
           [k \in DOMAIN REGISTERED_NODES \cup DOMAIN custom |->
               IF k \in DOMAIN custom THEN custom[k] ELSE REGISTERED_NODES[k]]
    /\ returned' = NoResult
    /\ UNCHANGED <<scene_vars, view_vars, zoom_vars, call_vars>>

\* load_custom_nodes: register_node for each custom node whose type is not
\* registered yet (the types of a dict are distinct, so the order of the loop
\* does not matter)
load_custom_nodes(custom) ==
    /\ Tick
    /\ REGISTERED_NODES' =
           [k \in DOMAIN REGISTERED_NODES \cup DOMAIN custom |->
               IF k \notin DOMAIN REGISTERED_NODES
               THEN RegistryPut(REGISTERED_NODES, k, custom[k])[k]
               ELSE REGISTERED_NODES[k]]
    /\ returned' = NoResult
    /\ UNCHANGED <<scene_vars, view_vars, zoom_vars, call_vars>>

\* list(REGISTERED_NODES.keys()), as a set: a dict has no key twice
list_node_types(reg) == DOMAIN reg

\* the literal list system_types of list_system_nodes
SystemTypes ==
    {"action_execution", "stop", "if", "while_loop", "comparison", "sensor_input"}

list_system_nodes(reg) == { t \in SystemTypes : t \in DOMAIN reg }

list_custom_nodes(reg) == { t \in DOMAIN reg : t \notin list_system_nodes(reg) }

NextRegistry ==
    \/ \E k \in RegisterKinds : \E cls \in RegisterClasses : register_node(k, cls)
    \/ \E k \in CreateKinds : \E id \in NodeIds : nodes_create_node(k, id)
    \/ \E custom \in CustomDicts : load_custom_nodes(custom)

SpecRegistry == Init /\ [][NextRegistry]_vars

\* ------------------------------------------------------------ drag and drop
\* how many nodes may be dropped
MaxDropped == 2

\* payload.get("title", ...) of dropEvent when the key is missing (the source's
\* literal is a Chinese phrase for "unknown module")
DefaultTitle == "unknown module"

\* the `features or [...]` lists of create_node, none for any other name
DefaultFeatures(name) ==
    IF name = "Logic Control" THEN <<"If", "While Loop">>
    ELSE IF name = "Condition" THEN <<"Equal", "Not Equal", "Greater Than", "Less Than">>
    ELSE IF name = "Action Execution" THEN <<"Lift Right Leg", "Stand", "Sit", "Walk", "Stop">>
    ELSE << >>

\* the items of the node's combo box: combo.addItems(features)
ComboItems(name, features) ==
    IF features # << >> THEN features ELSE DefaultFeatures(name)

\* the node item create_node(name, pos, features, grad) builds: the combo shows
\* its first item, "" when it has none
NewNodeWith(name, id, features) ==
    LET items == ComboItems(name, features)
        first == IF items = << >> THEN "" ELSE items[1]
    IN [NewNode(name, id) EXCEPT
            !.combo = first,
            !.vis = IF KindOf(name) = "logic"
                    THEN _on_mode_change(InitVis, first, "While") ELSE InitVis]

\* node_item._combo.setCurrentText(text) and the handlers of currentTextChanged
setCurrentTextMutant(nd, items, text) == nd
setCurrentText(nd, items, text) ==
    IF ~InList(items, text) \/ text = nd.combo THEN nd
    ELSE IF KindOf(nd.name) = "logic"
    THEN _update_node_params([nd EXCEPT !.combo = text,
                                        !.vis = _on_mode_change(nd.vis, text, nd.loop_type)])
    ELSE IF KindOf(nd.name) = "cond"
    THEN _update_node_params([nd EXCEPT !.combo = text])
    ELSE [nd EXCEPT !.combo = text]

\* the payloads of the palette cards, with a gradient
CardPayloads ==
    { [title |-> "Action Execution",
       features |-> <<"Lift Right Leg", "Stand", "Sit", "Walk", "Stop">>,
       preset |-> "Stop", grad |-> <<"#45a049", "#4CAF50">>],
      [title |-> "Logic Control", features |-> <<"If", "While Loop">>,
       preset |-> "While Loop", grad |-> <<"#45a049", "#4CAF50">>],
      [title |-> "Condition",
       features |-> <<"Equal", "Not Equal", "Greater Than", "Less Than">>,
       preset |-> "Not Equal", grad |-> <<"#45a049", "#4CAF50">>] }

\* a payload is a JSON object: a function from the keys it has to their values
Payloads ==
    { [k \in keys |-> full[k]] :
          full \in CardPayloads, keys \in SUBSET {"title", "features", "preset", "grad"} }

\* payload.get(key, default)
Get(payload, key, default) == IF key \in DOMAIN payload THEN payload[key] ELSE default

\* dropEvent leaves the graph as it is
DropNothing(tag) ==
    /\ last' = tag
    /\ UNCHANGED <<node_seq, nodes, scene_nodes, dead, conns, plist, temp_connection,
                   temp_start_port, reconnecting, reconnect_connection, reconnect_end,
                   mouse_down, pre_field, editor>>

\* what a drop carries: mime data without the "application/x-module-card"
\* format, card data json.loads cannot parse, or a payload
NoFormat == [format |-> "text/plain"]
Garbage == [text |-> "not json"]
DropData == {NoFormat, Garbage} \cup Payloads

\* GraphView.dropEvent
dropEvent(data) ==
    /\ Tick
    /\ ~mouse_down
    /\ Len(nodes) < MaxDropped
    /\ IF data = NoFormat THEN DropNothing("drop_ignored")
       ELSE IF data = Garbage THEN DropNothing("drop_failed")
       ELSE LET title == Get(data, "title", DefaultTitle)
                features == Get(data, "features", << >>)
                preset == Get(data, "preset", "")
                n == Len(nodes) + 1
                nd == NewNodeWith(title, node_seq, features)
                nd1 == IF preset # ""
                       THEN setCurrentText(nd, ComboItems(title, features), preset)
                       ELSE nd
            IN /\ nodes' = Append(nodes, nd1)
               /\ scene_nodes' = scene_nodes \cup {n}
               /\ plist' = plist @@ [p \in NodePorts(nodes', n) |-> << >>]
               /\ node_seq' = NextSeq(node_seq)
               /\ editor' = code_lines(nodes', scene_nodes')
               /\ last' = "drop"
               /\ UNCHANGED <<dead, conns, temp_connection, temp_start_port, reconnecting,
                              reconnect_connection, reconnect_end, mouse_down, pre_field>>
    /\ UNCHANGED <<view_vars, registry_vars, zoom_vars, call_vars>>

NextDrop == \E data \in DropData : dropEvent(data)

SpecDrop == Init /\ [][NextDrop]_vars

\* ------------------------------------------------------ the wired scenario
\* a Condition node whose result port was dragged onto its own left port
WiredNodes ==
    _apply_connection_to_input(<<NewNode("Condition", 0)>>,
                               Port(1, "left", 0), Port(1, "result", 0))

WiredEditing ==
    /\ node_seq = NextSeq(0)
    /\ nodes = WiredNodes
    /\ scene_nodes = {1}
    /\ dead = {}
    /\ conns = << [out |-> Port(1, "result", 0), in |-> Port(1, "left", 0), live |-> TRUE] >>
    /\ plist = [p \in NodePorts(WiredNodes, 1) |->
                   IF p.s \in {"result", "left"} THEN <<1>> ELSE << >>]
    /\ temp_connection = FALSE
    /\ temp_start_port = NoPort
    /\ reconnecting = FALSE
    /\ reconnect_connection = 0
    /\ reconnect_end = "none"
    /\ mouse_down = FALSE
    /\ pre_field = EmptyText
    /\ editor = code_lines(WiredNodes, {1})
    /\ last = "connect"
    /\ InitView
    /\ InitRegistry
    /\ InitZoom
    /\ InitCalls

InitWired == WiredEditing /\ steps = 0

\* mouseMoveEvent: during a gesture _update_temp_connection redraws the temporary
\* link from _port_center(self._temp_start_port), which raises for a destroyed port
mouse_move ==
    /\ Tick
    /\ last' = IF temp_connection /\ temp_start_port # NoPort /\ ~PortValid(temp_start_port)
               THEN "move_raised" ELSE ""
    /\ UNCHANGED <<node_seq, nodes, scene_nodes, dead, conns, plist, temp_connection,
                   temp_start_port, reconnecting, reconnect_connection, reconnect_end,
                   mouse_down, pre_field, editor>>

\* the pointer and Delete key events
NextPointer ==
    \/ mouse_move /\ SceneOnly
    \/ \E p \in ScenePorts : press_port(p) /\ SceneOnly
    \/ \E c \in DOMAIN conns : \E e \in {"start", "end"} : press_marker(c, e) /\ SceneOnly
    \/ press_canvas /\ SceneOnly
    \/ \E t \in ScenePorts \cup {NoPort} : mouse_release(t) /\ SceneOnly
    \/ \E selN \in SUBSET scene_nodes : \E selC \in SUBSET LiveConns : key_delete(selN, selC) /\ SceneOnly

SpecWired == InitWired /\ [][NextPointer]_vars

\* ------------------------------------------------------- the elif scenario
\* a Logic Control node with one elif row, whose out_elif_0 port was dragged
\* onto the node's own condition port
ElifRow == CHOOSE u \in 1..(2 * MaxSteps) : TRUE

ElifNodes ==
    _apply_connection_to_input(
        <<[NewNode("Logic Control", 0) EXCEPT
              !.elifs = <<[u |-> ElifRow, text |-> EmptyText,
                           slot |-> ElifSlot(0), out_slot |-> OutElifSlot(0)]>>]>>,
        Port(1, "condition", 0), Port(1, "out_elif", ElifRow))

ElifEditing ==
    /\ node_seq = NextSeq(0)
    /\ nodes = ElifNodes
    /\ scene_nodes = {1}
    /\ dead = {}
    /\ conns = << [out |-> Port(1, "out_elif", ElifRow), in |-> Port(1, "condition", 0),
                   live |-> TRUE] >>
    /\ plist = [p \in NodePorts(ElifNodes, 1) |->
                   IF p \in {Port(1, "out_elif", ElifRow), Port(1, "condition", 0)}
                   THEN <<1>> ELSE << >>]
    /\ temp_connection = FALSE
    /\ temp_start_port = NoPort
    /\ reconnecting = FALSE
    /\ reconnect_connection = 0
    /\ reconnect_end = "none"
    /\ mouse_down = FALSE
    /\ pre_field = EmptyText
    /\ editor = code_lines(ElifNodes, {1})
    /\ last = "connect"
    /\ InitView
    /\ InitRegistry
    /\ InitZoom
    /\ InitCalls

InitElif == ElifEditing /\ steps = 0

\* the pointer events and the elif buttons
NextElif ==
    \/ \E p \in ScenePorts : press_port(p) /\ SceneOnly
    \/ \E c \in DOMAIN conns : \E e \in {"start", "end"} : press_marker(c, e) /\ SceneOnly
    \/ \E t \in ScenePorts \cup {NoPort} : mouse_release(t) /\ SceneOnly
    \/ \E n \in scene_nodes : add_elif(n) /\ SceneOnly
    \/ \E n \in scene_nodes : \E i \in DOMAIN nodes[n].elifs : remove_elif(n, i) /\ SceneOnly

SpecElif == InitElif /\ [][NextElif]_vars

\* ----------------------------------------------------------------- the view
\* The pointer buttons: "right" stands for the middle button as well, the view
\* handling both alike.
Buttons == {"left", "right"}

\* GraphView.mousePressEvent: `button` went down over port p, over the marker e
\* of connection c, or over neither (p = NoPort, c = 0)
view_mousePressEvent(button, p, c, e) ==
    /\ p # NoPort => (p \in ScenePorts /\ c = 0)
    /\ c # 0 => c \in LiveConns
    /\ IF p # NoPort
       THEN is_connecting' = TRUE /\ drag_mode' = "NoDrag"
       ELSE UNCHANGED <<is_connecting, drag_mode>>
    /\ IF button # "left"
       THEN \* panning starts; the scene does not see the event
            /\ Tick
            /\ ~other_down
            /\ other_down' = TRUE
            /\ is_panning' = TRUE
            /\ last' = ""
            /\ UNCHANGED <<node_seq, nodes, scene_nodes, dead, conns, plist,
                           temp_connection, temp_start_port, reconnecting,
                           reconnect_connection, reconnect_end, mouse_down, pre_field,
                           editor>>
       ELSE /\ UNCHANGED <<is_panning, other_down>>
            /\ IF p # NoPort THEN press_port(p)
               ELSE IF c # 0 THEN press_marker(c, e)
               ELSE press_canvas
    /\ UNCHANGED <<registry_vars, zoom_vars, call_vars>>

\* GraphView.mouseMoveEvent: while panning the view scrolls and the scene does
\* not see the event
view_mouseMoveEvent ==
    /\ IF is_panning
       THEN /\ Tick
            /\ last' = ""
            /\ UNCHANGED <<node_seq, nodes, scene_nodes, dead, conns, plist,
                           temp_connection, temp_start_port, reconnecting,
                           reconnect_connection, reconnect_end, mouse_down, pre_field,
                           editor>>
       ELSE mouse_move
    /\ UNCHANGED <<view_vars, registry_vars, zoom_vars, call_vars>>

\* GraphView.mouseReleaseEvent that hands every release on to the scene
view_mouseReleaseEventMutant(button, target) ==
    /\ IF button = "left" THEN mouse_down ELSE other_down
    /\ target \in ScenePorts \cup {NoPort}
    /\ IF is_connecting
       THEN is_connecting' = FALSE /\ drag_mode' = "RubberBandDrag"
       ELSE UNCHANGED <<is_connecting, drag_mode>>
    /\ is_panning' = FALSE
    /\ IF button = "left"
       THEN mouse_down' = FALSE /\ other_down' = other_down
       ELSE mouse_down' = mouse_down /\ other_down' = FALSE
    /\ Tick
    /\ mouseReleaseEvent(target)
    /\ UNCHANGED <<registry_vars, zoom_vars, call_vars>>

\* GraphView.mouseReleaseEvent: `button` went up, target is the port in reach
view_mouseReleaseEvent(button, target) ==
    /\ IF button = "left" THEN mouse_down ELSE other_down
    /\ target \in ScenePorts \cup {NoPort}
    /\ IF is_connecting
       THEN is_connecting' = FALSE /\ drag_mode' = "RubberBandDrag"
       ELSE UNCHANGED <<is_connecting, drag_mode>>
    /\ is_panning' = FALSE
    /\ IF button = "left"
       THEN mouse_down' = FALSE /\ other_down' = other_down
       ELSE mouse_down' = mouse_down /\ other_down' = FALSE
    /\ Tick
    /\ IF is_panning
       THEN \* panning ends; the scene does not see the event
            /\ last' = ""
            /\ UNCHANGED <<node_seq, nodes, scene_nodes, dead, conns, plist,
                           temp_connection, temp_start_port, reconnecting,
                           reconnect_connection, reconnect_end, pre_field, editor>>
       ELSE mouseReleaseEvent(target)
    /\ UNCHANGED <<registry_vars, zoom_vars, call_vars>>

\* the pointer events, delivered through the view
NextView ==
    \/ \E b \in Buttons : \E p \in ScenePorts : view_mousePressEvent(b, p, 0, "start")
    \/ \E b \in Buttons : \E c \in LiveConns : \E e \in {"start", "end"} :
           view_mousePressEvent(b, NoPort, c, e)
    \/ \E b \in Buttons : view_mousePressEvent(b, NoPort, 0, "start")
    \/ \E b \in Buttons : \E t \in ScenePorts \cup {NoPort} : view_mouseReleaseEvent(b, t)
    \/ view_mouseMoveEvent

SpecView == InitWired /\ [][NextView]_vars

\* ---------------------------------------------------------- the update timer
\* ConnectionItem.update_path: what a call does for connection c
update_pathMutant(c) ==
    IF conns[c].out = NoPort \/ conns[c].in = NoPort THEN "raised"
    ELSE IF ~PortValid(conns[c].out) \/ ~PortValid(conns[c].in) THEN "skipped"
    ELSE "drawn"
update_path(c) ==
    IF conns[c].out = NoPort \/ conns[c].in = NoPort THEN "skipped"
    ELSE IF ~PortValid(conns[c].out) \/ ~PortValid(conns[c].in) THEN "skipped"
    ELSE "drawn"

\* the timeout of self._update_timer: _update_all_connections. It runs between
\* any two events and is not counted as one.
_update_all_connections ==
    /\ last' = IF \E c \in LiveConns : update_path(c) = "raised"
               THEN "tick_raised" ELSE "tick"
    /\ UNCHANGED <<node_seq, nodes, scene_nodes, dead, conns, plist, temp_connection,
                   temp_start_port, reconnecting, reconnect_connection, reconnect_end,
                   mouse_down, steps, pre_field, editor, view_vars, registry_vars,
                   zoom_vars, call_vars>>

NextTimer ==
    \/ Next
    \/ _update_all_connections

SpecTimer == Init /\ [][NextTimer]_vars

\* -------------------------------------------------------------------- zoom
\* Factors and scales are fixed-point numbers, 1000 standing for 1.0; a product
\* is cut to three decimals.
ZoomMin == 300
ZoomMax == 3000
WheelDeltas == {-120, 0, 120}

Times(a, b) == (a * b) \div 1000

\* the factor wheelEvent picks for angleDelta().y()
WheelFactor(delta) == IF delta > 0 THEN 1150 ELSE 850

\* GraphView.wheelEvent without its range check
wheelEventMutant(delta) ==
    /\ zoom_factor < 100 * ZoomMax
    /\ zoom_factor' = Times(zoom_factor, WheelFactor(delta))
    /\ view_scale' = Times(view_scale, WheelFactor(delta))
    /\ UNCHANGED <<scene_vars, steps, view_vars, registry_vars, call_vars>>

\* GraphView.wheelEvent
wheelEvent(delta) ==
    LET factor == WheelFactor(delta)
        new_zoom == Times(zoom_factor, factor)
    IN /\ IF new_zoom < ZoomMin \/ new_zoom > ZoomMax
          THEN UNCHANGED zoom_vars
          ELSE /\ zoom_factor' = new_zoom
               /\ view_scale' = Times(view_scale, factor)
       /\ UNCHANGED <<scene_vars, steps, view_vars, registry_vars, call_vars>>

\* GraphView.reset_view
reset_view ==
    /\ zoom_factor' = 1000
    /\ view_scale' = 1000
    /\ UNCHANGED <<scene_vars, steps, view_vars, registry_vars, call_vars>>

\* wheel events, the reset, and panning with the right button
NextZoom ==
    \/ \E delta \in WheelDeltas : wheelEvent(delta)
    \/ reset_view
    \/ view_mousePressEvent("right", NoPort, 0, "start")
    \/ view_mouseReleaseEvent("right", NoPort)

SpecZoom == Init /\ [][NextZoom]_vars

\* --------------------------------------------------------- _find_port_near
\* Scene coordinates are pixels. An item is what self.items(search_rect) looks
\* at: kind is its data(0), (x, y) its centre, r the radius of its ellipse.
SnapRadius == 14
PenHalfWidth == 1
Offsets == {-18, 0, 12, 18, 24}
PortRadii == {4, 6}

PortItems == [kind : {"port"}, x : Offsets, y : Offsets, r : PortRadii]
OtherItems == [kind : {"connection_marker"}, x : {0}, y : {0, 12}, r : {4}]
Items == PortItems \cup OtherItems
Points == { [x |-> 0, y |-> 0], [x |-> 6, y |-> 0] }

Abs(i) == IF i < 0 THEN -i ELSE i
Max0(i) == IF i < 0 THEN 0 ELSE i

\* the item's shape (the ellipse and the stroke of its pen) intersects the
\* search square QRectF(pos.x - radius, pos.y - radius, 2 radius, 2 radius)
InSearchRect(it, pos) ==
    LET dx == Max0(Abs(it.x - pos.x) - SnapRadius)
        dy == Max0(Abs(it.y - pos.y) - SnapRadius)
        reach == it.r + PenHalfWidth
    IN dx * dx + dy * dy < reach * reach

\* (c.x() - pos.x()) ** 2 + (c.y() - pos.y()) ** 2
Dist2(it, pos) == (it.x - pos.x) * (it.x - pos.x) + (it.y - pos.y) * (it.y - pos.y)

\* the indices, in the order of self.items(search_rect), of the candidates
RECURSIVE Candidates(_, _, _)
Candidates(items, pos, i) ==
    IF i > Len(items) THEN << >>
    ELSE (IF items[i].kind = "port" /\ InSearchRect(items[i], pos) THEN <<i>> ELSE << >>)
         \o Candidates(items, pos, i + 1)

\* min(candidates, key=lambda t: t[0]): the first candidate no later one beats
RECURSIVE MinFromMutant(_, _, _, _, _)
MinFromMutant(items, pos, cands, k, best) ==
    IF k > Len(cands) THEN best
    ELSE MinFromMutant(items, pos, cands, k + 1,
                       IF Dist2(items[cands[k]], pos) <= Dist2(items[best], pos)
                       THEN cands[k] ELSE best)

RECURSIVE MinFrom(_, _, _, _, _)
MinFrom(items, pos, cands, k, best) ==
    IF k > Len(cands) THEN best
    ELSE MinFrom(items, pos, cands, k + 1,
                 IF Dist2(items[cands[k]], pos) < Dist2(items[best], pos)
                 THEN cands[k] ELSE best)

\* the index of the port returned, 0 for None
_find_port_near(items, pos) ==
    LET cands == Candidates(items, pos, 1) IN
    IF cands = << >> THEN 0 ELSE MinFrom(items, pos, cands, 2, cands[1])

\* one call, on a scene with at most two items near the release point; a
\* later call is made on the same scene and point
find_port_near(items, pos) ==
    /\ found.called => (items = found.items /\ pos = found.pos)
    /\ found' = [called |-> TRUE, items |-> items, pos |-> pos,
                 port |-> _find_port_near(items, pos)]
    /\ UNCHANGED <<scene_vars, steps, view_vars, registry_vars, zoom_vars, executed>>

ItemLists == { << >> } \cup { <<a>> : a \in Items } \cup { <<a, b>> : a \in Items, b \in PortItems }

NextFind == \E items \in ItemLists : \E pos \in Points : find_port_near(items, pos)

SpecFind == Init /\ [][NextFind]_vars

\* ------------------------------------------------------------------ IfNode
\* how many elif branches the node may get
MaxElifs == 2

\* Python values an input may carry, by their repr
PyValues == {"None", "0", "True", "{'value': False}"}

\* bool(v)
Truthy(v) == v \notin {"None", "0", "False", "''"}

\* the inputs dicts execute is called with
InputKeys == {"condition"} \cup { ElifSlot(i) : i \in 0..(MaxElifs - 1) }
InputDicts == UNION { [S -> PyValues] : S \in SUBSET InputKeys }

\* inputs.get(key, False)
GetInput(inputs, key) == IF key \in DOMAIN inputs THEN inputs[key] ELSE "False"

\* the loop of execute from idx on: the first idx below n whose input is
\* truthy, -1 when the loop ends without one
RECURSIVE ElifLoopMutant(_, _, _)
ElifLoopMutant(inputs, idx, n) ==
    IF idx >= n THEN -1
    ELSE LET later == ElifLoopMutant(inputs, idx + 1, n) IN
         IF later >= 0 THEN later
         ELSE IF Truthy(GetInput(inputs, ElifSlot(idx))) THEN idx ELSE -1

RECURSIVE ElifLoop(_, _, _)
ElifLoop(inputs, idx, n) ==
    IF idx >= n THEN -1
    ELSE IF Truthy(GetInput(inputs, ElifSlot(idx))) THEN idx
    ELSE ElifLoop(inputs, idx + 1, n)

\* the dict execute returns for a node with n elif branches
IfNode_execute(n, inputs) ==
    IF Truthy(GetInput(inputs, "condition"))
    THEN [k \in {"out_true", "out_false"} |->
             IF k = "out_true" THEN "{'value': True}" ELSE "None"]
    ELSE LET idx == ElifLoop(inputs, 0, n) IN
         IF idx >= 0
         THEN [k \in {OutElifSlot(idx), "out_false"} |->
                  IF k = "out_false" THEN "None" ELSE "{'value': True}"]
         ELSE [k \in {"out_true", "out_false"} |->
                  IF k = "out_true" THEN "None" ELSE "{'value': False}"]

\* IfNode.add_elif; what execute returned before is about the node as it was
add_elif_branch ==
    /\ executed.elifs < MaxElifs
    /\ executed' = [NewIfNode EXCEPT !.elifs = executed.elifs + 1]
    /\ UNCHANGED <<scene_vars, steps, view_vars, registry_vars, zoom_vars, found>>

\* IfNode.execute(inputs)
execute(inputs) ==
    /\ executed' = [executed EXCEPT !.called = TRUE, !.inputs = inputs,
                                    !.result = IfNode_execute(executed.elifs, inputs)]
    /\ UNCHANGED <<scene_vars, steps, view_vars, registry_vars, zoom_vars, found>>

NextIf ==
    \/ add_elif_branch
    \/ \E inputs \in InputDicts : execute(inputs)

SpecIf == Init /\ [][NextIf]_vars

\* ================================================================== claims
\* the two endpoints of a connection that are bound to a port
Endpoints(c) == { conns[c].out, conns[c].in } \ {NoPort}

\* how many endpoints of connection c are None
NullEndpoints(cs, c) ==
    (IF cs[c].out = NoPort THEN 1 ELSE 0) + (IF cs[c].in = NoPort THEN 1 ELSE 0)

\* C1: the node ids issued are pairwise distinct and strictly increasing in
\* creation order, whatever nodes were deleted in between; a create_node after
\* a deletion does not reuse an id.
C1_IdsIncreasing ==
    \A i \in DOMAIN nodes : \A j \in DOMAIN nodes :
        i < j => nodes[i].id < nodes[j].id

\* a node was created after an earlier node had been deleted
C1_Witness ==
    /\ last = "create_node"
    /\ Len(nodes) >= 2
    /\ \E i \in 1..(Len(nodes) - 1) : i \notin scene_nodes

\* C2: in every reachable state no connection in the scene has its out endpoint
\* and its in endpoint bound to two ports of the same direction, also after a
\* successful reconnection of either marker.
C2_OppositeDirections ==
    \A c \in LiveConns :
        (conns[c].out # NoPort /\ conns[c].in # NoPort)
            => PortDir(conns[c].out) # PortDir(conns[c].in)

\* C3: in every reachable state each endpoint of every connection in the scene
\* is a port of a node that is in the scene, also when the node owning the
\* start port is deleted while a gesture is in progress.
C3_EndpointsInScene ==
    \A c \in LiveConns : \A p \in Endpoints(c) :
        p.n \in scene_nodes /\ p \in NodePorts(nodes, p.n)

\* C4: outside Reconnecting every connection in the scene has both endpoints;
\* while Reconnecting only the grabbed connection has a null endpoint, and it
\* has exactly one.
C4_NullOnlyWhileReconnecting ==
    /\ ~reconnecting => \A c \in LiveConns : NullEndpoints(conns, c) = 0
    /\ reconnecting =>
           \A c \in LiveConns :
               IF c = reconnect_connection THEN NullEndpoints(conns, c) = 1
               ELSE NullEndpoints(conns, c) = 0

C6_NoIncidentAfterDelete ==
    [][\A n \in scene_nodes :
           n \notin scene_nodes'
           => \A c \in DOMAIN conns' :
                  conns'[c].live => (conns'[c].out.n # n /\ conns'[c].in.n # n)]_vars

\* a node was deleted and took a connection on one of its ports with it
C6_Witness ==
    /\ last = "delete"
    /\ \E c \in DOMAIN conns : \E p \in Endpoints(c) :
           /\ ~conns[c].live
           /\ p.n \notin scene_nodes
           /\ InList(plist[p], c)

\* C7: when a node is deleted, each connection on its ports is detached like an
\* explicit disconnect does: no port of a surviving node lists it any more and
\* the field it had set on a surviving destination node is cleared.
C7_DetachedOnNodeDelete ==
    [][\A n \in scene_nodes :
           n \notin scene_nodes'
           => \A c \in LiveConns :
                  (\E p \in Endpoints(c) : p.n = n)
                  => /\ \A m \in scene_nodes' : \A q \in NodePorts(nodes', m) :
                            ~InList(plist'[q], c)
                     /\ (conns[c].in # NoPort /\ conns[c].in.n \in scene_nodes')
                            => nodes'[conns[c].in.n]
                               = _clear_input_for_port(nodes, conns[c].in)[conns[c].in.n]]_vars

\* the in-slots whose port feeds an input widget
FieldSlots == {"condition", "elif", "for_start", "for_end", "for_step", "left", "right"}

\* the step deletes the connection the latest handler created, and nothing else
DisconnectsLatest ==
    /\ last = "connect"
    /\ conns[Len(conns)].in.s \in FieldSlots
    /\ key_delete({}, {Len(conns)})

\* C8 (as stated): connecting an out port to an in-port with a parameter field
\* and then disconnecting that connection leaves the field with its pre-connect
\* content.
C8_RoundTrip ==
    [][DisconnectsLatest
       => FieldOf(nodes', conns[Len(conns)].in) = pre_field]_vars

\* C8 (amended): connect-then-disconnect leaves the field empty, whatever it
\* held before; only the condition input that is hidden (loop mode) is not
\* written by either step and keeps its content, the label shown in its place
\* being reset to "Condition".
C8_DisconnectClears ==
    [][DisconnectsLatest
       => LET p == conns[Len(conns)].in IN
          IF p.s = "condition" /\ ~nodes[p.n].vis.cond_input
          THEN /\ FieldOf(nodes', p) = pre_field
               /\ nodes'[p.n].cond_label = PlaceholderLabel
          ELSE FieldOf(nodes', p) = EmptyText]_vars

\* a field that held user text was connected to and disconnected again
C8_Witness ==
    /\ last = "delete"
    /\ conns # << >>
    /\ ~conns[Len(conns)].live
    /\ conns[Len(conns)].in.s \in FieldSlots
    /\ pre_field \in UserTexts
    /\ FieldOf(nodes, conns[Len(conns)].in) = EmptyText

\* the endpoint of connection c a marker stands for
EndOf(cs, c, end_type) == IF end_type = "start" THEN cs[c].out ELSE cs[c].in
OtherEnd(end_type) == IF end_type = "start" THEN "end" ELSE "start"

\* C9: after a successful reconnection the grabbed endpoint is the drop target,
\* the other endpoint is the port it was, and both are non-null, for the start
\* marker and for the end marker.
C9_ReconnectRebinds ==
    [][\A t \in ScenePorts :
           (/\ reconnecting /\ reconnect_connection # 0
            /\ mouse_release(t)
            /\ last' = "reconnect")
           => LET rc == reconnect_connection IN
              /\ EndOf(conns', rc, reconnect_end) = t
              /\ EndOf(conns', rc, OtherEnd(reconnect_end))
                     = EndOf(conns, rc, OtherEnd(reconnect_end))
              /\ NullEndpoints(conns', rc) = 0]_vars

\* C10: a reconnection rejected for the target's direction leaves the prior
\* state: the connection has the two endpoints it had before the marker was
\* grabbed, and port lists and node items are unchanged.
C10_RejectRestores ==
    [][(reconnecting /\ reconnect_connection # 0 /\ last' = "reconnect_rejected")
       => LET rc == reconnect_connection IN
          /\ EndOf(conns', rc, reconnect_end) = temp_start_port
          /\ EndOf(conns', rc, OtherEnd(reconnect_end))
                 = EndOf(conns, rc, OtherEnd(reconnect_end))
          /\ plist' = plist
          /\ nodes' = nodes]_vars

\* C11: a successful reconnection propagates like a disconnect of the old
\* connection followed by a connect of the new endpoint pair: the connection has
\* a new pair, the old destination's field is cleared when the in-end moved and
\* the destination's field holds the label of the connection's out port.
C11_ReconnectPropagates ==
    [][(reconnecting /\ reconnect_connection # 0 /\ last' = "reconnect")
       => LET rc == reconnect_connection
              old_in == IF reconnect_end = "end" THEN temp_start_port ELSE conns[rc].in
              new_in == conns'[rc].in
              new_out == conns'[rc].out
          IN /\ new_in # NoPort /\ new_out # NoPort
             /\ nodes' = _apply_connection_to_input(
                             IF old_in # NoPort THEN _clear_input_for_port(nodes, old_in)
                             ELSE nodes,
                             new_in, new_out)]_vars

\* the scene is Idle: no gesture in progress
Idle == ~reconnecting /\ ~temp_connection /\ temp_start_port = NoPort

\* C12: a Reconnecting gesture released where no compatible port is in reach
\* discards the grabbed connection: it is no longer in the scene, no connection
\* with a detached endpoint remains, and the scene is Idle.
C12_CancelDiscards ==
    [][(/\ reconnecting /\ reconnect_connection # 0
        /\ last' \in {"reconnect_cancel", "reconnect_rejected"})
       => /\ ~conns'[reconnect_connection].live
          /\ \A c \in DOMAIN conns' : conns'[c].live => NullEndpoints(conns', c) = 0
          /\ Idle']_vars

\* the step leaves the nodes, the connections and every port list as they were
GraphUnchanged ==
    /\ Len(nodes') = Len(nodes)
    /\ scene_nodes' = scene_nodes
    /\ conns' = conns
    /\ plist' = plist

\* C13: a connection drag started from any port and released where no port is
\* in reach, or on the start port itself, adds no connection: neither the press
\* nor the release changes the nodes, the connections or a port list, and the
\* release removes the temporary link.
C13_CancelledDragAddsNothing ==
    [][/\ \A p \in ScenePorts : press_port(p) => GraphUnchanged
       /\ \A t \in {NoPort, temp_start_port} :
              (temp_connection /\ ~reconnecting /\ mouse_release(t))
              => /\ GraphUnchanged
                 /\ ~temp_connection'
                 /\ temp_start_port' = NoPort]_vars

\* a drag from a port ended without a target port
C13_Witness ==
    /\ last = "connect_cancel"
    /\ ~temp_connection
    /\ ~mouse_down
    /\ scene_nodes # {}

\* the step is one of the graph mutations: a node item, the set of nodes or of
\* connections in the scene changed, or a connection was rebound
GraphMutated ==
    \/ nodes' # nodes
    \/ scene_nodes' # scene_nodes
    \/ Len(conns') # Len(conns)
    \/ \E c \in DOMAIN conns : conns'[c].live # conns[c].live
    \/ last' = "reconnect"

\* C14: after every graph mutation, a parameter edit typed into a field
\* included, the text last sent to the code editor is the text the generator
\* produces from the current graph.
C14_EditorFresh ==
    [][GraphMutated => editor' = code_lines(nodes', scene_nodes')]_vars

IsHeader(line) ==
    /\ Len(line) = 5
    /\ line[1] = "    # "
    /\ line[3] = " (ID: "

\* the header lines of a text, in the order they appear
HeaderLines(text) == SelectSeq(text, IsHeader)

\* C16: the generated text lists the nodes' header comments in creation order,
\* by ascending sequence id.
C16_HeadersAscending ==
    LET hs == HeaderLines(code_lines(nodes, scene_nodes)) IN
    \A i \in DOMAIN hs : \A j \in DOMAIN hs : i < j => hs[i][4] < hs[j][4]

\* C17: for every graph, the empty one included, the generated text starts with
\* the skeleton ending in "def execute_workflow():", ends with the two-line
\* footer, and in between holds exactly one header "# <name> (ID: <id>)" per
\* node in the scene and none for a deleted node.
C17_SkeletonAndHeaders ==
    LET text == code_lines(nodes, scene_nodes)
        hs == HeaderLines(text)
    IN /\ Len(text) >= 6
       /\ SubSeq(text, 1, 4) = Skeleton
       /\ text[4] = <<"def execute_workflow():">>
       /\ SubSeq(text, Len(text) - 1, Len(text)) = Footer
       /\ \A i \in DOMAIN text : IsHeader(text[i]) => (i > 4 /\ i < Len(text) - 1)
       /\ Len(hs) = Cardinality(scene_nodes)
       /\ \A n \in scene_nodes :
              Cardinality({ i \in DOMAIN hs :
                              hs[i] = <<"    # ", nodes[n].name, " (ID: ", nodes[n].id, ")">> }) = 1

\* text generated for a graph that holds a node and has lost another
C17_Witness ==
    /\ last = "delete"
    /\ scene_nodes # {}
    /\ Len(nodes) > Cardinality(scene_nodes)
    /\ editor = code_lines(nodes, scene_nodes)

\* the latest connection runs from the flow out-port of an action node to the
\* condition in-port of an if node in the scene
ActionToIfCondition ==
    /\ last = "connect"
    /\ conns # << >>
    /\ LET c == conns[Len(conns)] IN
       /\ c.in.s = "condition"
       /\ c.in.n \in scene_nodes
       /\ nodes[c.in.n].combo = "If"
       /\ nodes[c.out.n].name = "Action Execution"
       /\ PortDir(c.out) = "out"

\* C18 (as stated): after connecting an action node's out port to an if node's
\* condition in-port the generated text has a condition line whose expression
\* is "<action node name>.out".
C18_ConditionIsNameDotOut ==
    ActionToIfCondition
    => InList(editor, <<"    # condition: ", nodes[conns[Len(conns)].out.n].name, ".", "out">>)

\* C18 (amended): the expression is "<action node name>.flow_out", the node's
\* name and the slot of its out port.
C18_ConditionIsNameDotSlot ==
    ActionToIfCondition
    => InList(editor, <<"    # condition: ", "Action Execution", ".", "flow_out">>)

\* an action node was wired into the condition of an if node
C18_Witness ==
    /\ ActionToIfCondition
    /\ nodes[conns[Len(conns)].in.n].cond_text = <<"Action Execution", ".", "flow_out">>

\* the loop lines of a generated text for loop node nd: the loop type, and the
\* for-bounds line exactly when the type is "For"
LoopTextShape(text, nd) ==
    IF nd.loop_type = "For"
    THEN /\ InList(text, <<"    # loop_type: ", "For">>)
         /\ InList(text, <<"    # for: start=">> \o nd.for_start \o <<", end=">>
                             \o nd.for_end \o <<", step=">> \o nd.for_step)
    ELSE /\ InList(text, <<"    # loop_type: ", "While">>)
         /\ \A i \in DOMAIN text : text[i] = << >> \/ text[i][1] # "    # for: start="

\* C19: for a loop-mode node, a text generated while the loop type is for shows
\* loop_type For and the three bound values; a text generated after toggling
\* back to while has no for-bounds line although the bounds are still stored.
C19_ForBoundsFollowLoopType ==
    [][(\/ nodes'[1].loop_type # nodes[1].loop_type
        \/ last' \in {"regenerate", "regenerate_twice"})
       => LoopTextShape(editor', nodes'[1])]_vars

\* the loop type was toggled to for, start=0, end=5, step=1 were typed, and it
\* was toggled back to while
C19_Witness ==
    /\ nodes[1].loop_type = "While"
    /\ nodes[1].for_start = <<"0">>
    /\ nodes[1].for_end = <<"5">>
    /\ nodes[1].for_step = <<"1">>
    /\ editor = code_lines(nodes, scene_nodes)

\* C20: in every Idle state each in port has at most one fully attached
\* connection.
C20_OneConnectionPerInPort ==
    (Idle /\ ~mouse_down)
    => \A c \in LiveConns : \A d \in LiveConns :
           (/\ c # d
            /\ NullEndpoints(conns, c) = 0 /\ NullEndpoints(conns, d) = 0
            /\ PortDir(conns[c].in) = "in")
           => conns[c].in # conns[d].in

\* the in-port of connection c feeds an input widget that is still there
FeedsField(c) ==
    /\ conns[c].in # NoPort /\ conns[c].out # NoPort
    /\ PortValid(conns[c].in) /\ PortValid(conns[c].out)
    /\ conns[c].in.s \in FieldSlots
    /\ HasField(nodes[conns[c].in.n], conns[c].in)

\* C21: Delete/Backspace with a non-empty selection removes every selected node
\* and connection; each selected connection leaves the lists of both its
\* endpoint ports and the destination field that holds its label is reset to
\* empty (the label shown in place of a hidden condition input to "Condition");
\* unselected nodes stay, and a connection that is neither selected nor on a
\* port of a selected node keeps its place and endpoints.
C21_DeleteSelection ==
    [][\A selN \in SUBSET scene_nodes : \A selC \in SUBSET LiveConns :
           key_delete(selN, selC)
           => /\ scene_nodes' = scene_nodes \ selN
              /\ \A c \in selC :
                     /\ ~conns'[c].live
                     /\ \A p \in Endpoints(c) : PortValid(p) => ~InList(plist'[p], c)
                     /\ FeedsField(c)
                        => LET i == conns[c].in
                               label == _format_connection_label(nodes, conns[c].out)
                           IN /\ FieldOf(nodes, i) = label
                                     => FieldOf(nodes', i) = EmptyText
                              /\ (i.s = "condition" /\ nodes[i.n].cond_label = label)
                                     => nodes'[i.n].cond_label = PlaceholderLabel
              /\ \A c \in LiveConns \ selC :
                     (\A p \in Endpoints(c) : p.n \notin selN) => conns'[c] = conns[c]]_vars

\* C22: register_node(kind, definition) fails when kind is already registered
\* and leaves the definition registered for it as it was.
C22_RegisterRejectsDuplicate ==
    [][\A k \in RegisterKinds : \A cls \in RegisterClasses :
           (k \in DOMAIN REGISTERED_NODES /\ register_node(k, cls))
           => /\ returned'.raised
              /\ REGISTERED_NODES' = REGISTERED_NODES]_vars

\* C23: create_node(kind, id) of the registry raises and leaves the registry
\* unchanged when kind is not registered; for a registered kind it returns an
\* instance of the registered class with node_id = id, and for each of the six
\* built-in kinds the instance's node_type is that kind.
C23_CreateByKind ==
    [][\A k \in CreateKinds : \A id \in NodeIds :
           nodes_create_node(k, id)
           => /\ REGISTERED_NODES' = REGISTERED_NODES
              /\ IF k \notin DOMAIN REGISTERED_NODES
                 THEN returned'.raised
                 ELSE /\ ~returned'.raised
                      /\ returned'.cls = REGISTERED_NODES[k]
                      /\ returned'.node_id = id
                      /\ k \in BuiltinKinds => returned'.node_type = k]_vars

\* C24: the timer tick may fire in any interaction state, also while a
\* connection has a null endpoint; it changes neither the nodes, the
\* connections and their endpoints, a port's connection list, a parameter, the
\* id counter nor the interaction state, and it never raises.
C24_TickReadsOnly ==
    [][last' \in {"tick", "tick_raised"}
       => /\ last' = "tick"
          /\ nodes' = nodes
          /\ scene_nodes' = scene_nodes
          /\ conns' = conns
          /\ plist' = plist
          /\ node_seq' = node_seq
          /\ <<temp_connection, temp_start_port, reconnecting, reconnect_connection,
               reconnect_end>>' = <<temp_connection, temp_start_port, reconnecting,
                                    reconnect_connection, reconnect_end>>]_vars

\* the tick fired in the middle of a reconnection, the grabbed connection having
\* a null endpoint
C24_Witness ==
    /\ last = "tick"
    /\ reconnecting
    /\ mouse_down
    /\ reconnect_connection # 0
    /\ conns[reconnect_connection].live
    /\ NullEndpoints(conns, reconnect_connection) = 1

\* C25: no sequence of pointer presses and releases and Delete keys makes a
\* scene handler raise: a gesture whose port is missing (a null endpoint under
\* the pressed marker, a null or removed start port at the release) is aborted
\* silently.
C25_HandlersNeverRaise ==
    last \notin {"press_marker_raised", "connect_raised", "reconnect_raised", "move_raised"}

\* C26: a drop whose payload lacks title, features, grad or preset creates
\* exactly one node, with the default title and the default features of its
\* kind for a missing field; when preset is present and one of the node's
\* features the node's selected feature is preset; a drop without the
\* module-card format or with an unparsable payload raises nothing and leaves
\* the graph unchanged.
C26_DropDefaults ==
    [][\A payload \in DropData :
           dropEvent(payload)
           => IF payload \in Payloads
              THEN LET n == Len(nodes) + 1
                       title == IF "title" \in DOMAIN payload
                                THEN payload.title ELSE DefaultTitle
                       items == IF "features" \in DOMAIN payload
                                THEN payload.features ELSE DefaultFeatures(title)
                   IN /\ Len(nodes') = n
                      /\ scene_nodes' = scene_nodes \cup {n}
                      /\ \A m \in DOMAIN nodes : nodes'[m] = nodes[m]
                      /\ nodes'[n].name = title
                      /\ nodes'[n].id = node_seq
                      /\ IF "preset" \in DOMAIN payload /\ InList(items, payload.preset)
                         THEN nodes'[n].combo = payload.preset
                         ELSE nodes'[n].combo = (IF items = << >> THEN "" ELSE items[1])
                      /\ last' = "drop"
              ELSE /\ nodes' = nodes
                   /\ scene_nodes' = scene_nodes
                   /\ conns' = conns
                   /\ plist' = plist
                   /\ node_seq' = node_seq
                   /\ last' \in {"drop_ignored", "drop_failed"}]_vars

\* a payload without title and features but with a preset was dropped, then
\* one with a title and a preset among the default features of its kind
C26_Witness ==
    /\ last = "drop"
    /\ Len(nodes) = 2
    /\ nodes[1].name = DefaultTitle
    /\ nodes[1].combo = ""
    /\ nodes[2].name = "Logic Control"
    /\ nodes[2].combo = "While Loop"
    /\ nodes[2].params.ui_selection = "While Loop"

\* C27: in every Idle state a connection is in a port's connection list exactly
\* when it is in the scene and the port is its out_port or its in_port; in
\* particular the port a reconnection released no longer lists the connection.
C27_ListsMatchEndpoints ==
    (Idle /\ ~mouse_down)
    => \A n \in scene_nodes : \A p \in NodePorts(nodes, n) : \A c \in DOMAIN conns :
           InList(plist[p], c) <=> (conns[c].live /\ p \in Endpoints(c))

\* a connection gesture is in progress in the scene
InGesture == temp_connection \/ reconnecting

\* C28: rubber-band selection stays suspended for the whole connection gesture:
\* from the left press on a port to the release that ends the gesture the
\* view's drag mode is NoDrag, also when another button is pressed and released
\* in between; whenever no gesture is in progress it is RubberBandDrag.
C28_DragModeFollowsGesture ==
    /\ (temp_connection /\ ~reconnecting) => drag_mode = "NoDrag"
    /\ ~InGesture => drag_mode = "RubberBandDrag"

\* C29: once the scene has handled a pointer release it is Idle: no temporary
\* link, no start port, reconnecting false and no reconnect connection; and in
\* every state a temporary link exists only if a start port is recorded.
C29_ReleaseLeavesIdle ==
    /\ [](temp_connection => temp_start_port # NoPort)
    /\ [][(\E target \in ScenePorts \cup {NoPort} : mouse_release(target))
          => (/\ ~temp_connection'
              /\ temp_start_port' = NoPort
              /\ ~reconnecting'
              /\ reconnect_connection' = 0)]_vars

\* C30: connecting an out port to the condition in-port of a Logic Control node
\* stores the label "<sourceNode>.<slot>" in the node's condition_expr and in
\* the generated condition line, in every sub-mode that shows the condition
\* port: in while mode as well as in if mode.
C30_ConditionLabelStored ==
    [][(/\ last' = "connect"
        /\ Len(conns') = Len(conns) + 1
        /\ conns'[Len(conns')].in.s = "condition")
       => LET c == conns'[Len(conns')]
              label == _format_connection_label(nodes', c.out)
          IN /\ nodes'[c.in.n].params.condition_expr = label
             /\ \E i \in DOMAIN editor' : editor'[i] = <<"    # condition: ">> \o label]_vars

\* ------------------------------------------------------------------ C31..C39
\* the elif in-ports and out-ports among the child ports of node n
ElifInPorts(n) == { p \in NodePorts(nodes, n) : p.s = "elif" }
ElifOutPorts(n) == { p \in NodePorts(nodes, n) : p.s = "out_elif" }

\* C31: whatever elif rows were added and removed, a node's elif in-ports carry
\* exactly the slot ids elif_0..elif_{n-1} and its elif out-ports exactly
\* out_elif_0..out_elif_{n-1}, n being the number of elif rows; there are as
\* many in-ports and out-ports as rows, and no two ports of the node share a
\* slot id.
C31_ElifSlotsContiguous ==
    \A n \in DOMAIN nodes :
        LET rows == Len(nodes[n].elifs) IN
        /\ { PortSlot(nodes, p) : p \in ElifInPorts(n) } = { ElifSlot(i) : i \in 0..(rows - 1) }
        /\ { PortSlot(nodes, p) : p \in ElifOutPorts(n) } = { OutElifSlot(i) : i \in 0..(rows - 1) }
        /\ Cardinality(ElifInPorts(n)) = rows
        /\ Cardinality(ElifOutPorts(n)) = rows
        /\ \A p \in NodePorts(nodes, n) : \A q \in NodePorts(nodes, n) :
               p # q => PortSlot(nodes, p) # PortSlot(nodes, q)

\* a row that was not the first one added is now the first row: an earlier
\* row was removed and the remaining ones renumbered
C31_Witness ==
    \E n \in scene_nodes :
        /\ Len(nodes[n].elifs) >= 1
        /\ nodes[n].elifs[1].u # (CHOOSE u \in 1..(2 * MaxSteps) : TRUE)
        /\ nodes[n].elifs[1].slot = "elif_0"

\* the field texts of a node item: the inputs outside the elif rows, and the
\* input of each elif row, by row object
FixedTexts(nd) == <<nd.cond_text, nd.for_start, nd.for_end, nd.for_step, nd.left, nd.right>>
RowTexts(nd) == { <<nd.elifs[i].u, nd.elifs[i].text>> : i \in DOMAIN nd.elifs }

\* C32: removing an elif branch removes the branch's in-port and out-port and
\* every connection attached to either of them, and leaves the other ports,
\* the other connections and the field texts of the other branches and of the
\* rest of the node as they were.
C32_RemoveElifFrame ==
    [][\A n \in scene_nodes : \A i \in DOMAIN nodes[n].elifs :
          remove_elif(n, i)
          => LET u == nodes[n].elifs[i].u
                 own == {Port(n, "elif", u), Port(n, "out_elif", u)}
                 attached == { c \in LiveConns : conns[c].out \in own \/ conns[c].in \in own }
             IN /\ NodePorts(nodes', n) = NodePorts(nodes, n) \ own
                /\ \A c \in attached : ~conns'[c].live
                /\ \A c \in LiveConns \ attached : conns'[c] = conns[c]
                /\ \A m \in DOMAIN nodes : m # n => nodes'[m] = nodes[m]
                /\ FixedTexts(nodes'[n]) = FixedTexts(nodes[n])
                /\ RowTexts(nodes'[n]) = RowTexts(nodes[n]) \ {<<u, nodes[n].elifs[i].text>>}
                /\ \A p \in NodePorts(nodes', n) : plist'[p] = plist[p]]_vars

\* the sub-mode of a Logic Control node item: what its two combos say
SubMode(nd) ==
    IF ~IsWhileText(nd.combo) THEN "if"
    ELSE IF nd.loop_type = "For" THEN "for"
    ELSE "while"

\* the slot ids of the ports of node n that are visible
VisibleSlots(n) ==
    { PortSlot(nodes, p) : p \in { q \in NodePorts(nodes, n) : PortVisible(nodes, q) } }

\* the slot ids a sub-mode shows, for a node with `rows` elif rows
ModeSlots(mode, rows) ==
    IF mode = "if"
    THEN {"flow_in", "condition", "out_true", "out_false"}
         \cup { ElifSlot(i) : i \in 0..(rows - 1) }
         \cup { OutElifSlot(i) : i \in 0..(rows - 1) }
    ELSE IF mode = "while"
    THEN {"flow_in", "condition", "loop_body", "loop_end"}
    ELSE {"flow_in", "for_start", "for_end", "for_step", "loop_body", "loop_end"}

\* C33: the visible ports of a Logic Control node are determined by its
\* sub-mode and its number of elif rows, whatever was toggled before, and
\* applying the current mode once more changes nothing.
C33_VisiblePortsByMode ==
    \A n \in scene_nodes :
        KindOf(nodes[n].name) = "logic"
        => /\ VisibleSlots(n) = ModeSlots(SubMode(nodes[n]), Len(nodes[n].elifs))
           /\ _on_mode_change(nodes[n].vis, nodes[n].combo, nodes[n].loop_type) = nodes[n].vis

\* a node back in if mode after its loop type was switched to For
C33_Witness ==
    \E n \in scene_nodes :
        /\ KindOf(nodes[n].name) = "logic"
        /\ nodes[n].combo = "If"
        /\ nodes[n].loop_type = "For"

\* C34: _find_port_near returns None exactly when no port lies in the search
\* square around the release point (no port item's shape intersects it);
\* otherwise it returns such a port whose centre is at the least squared
\* distance from the release point, the first one found among equally near
\* ones; calling it again on the same items and point gives the same port.
C34_NearestPort ==
    /\ [](found.called
          => LET items == found.items
                 pos == found.pos
                 near == { i \in DOMAIN items :
                             items[i].kind = "port" /\ InSearchRect(items[i], pos) }
             IN /\ found.port = 0 <=> near = {}
                /\ found.port # 0
                   => /\ found.port \in near
                      /\ \A j \in near : Dist2(items[found.port], pos) <= Dist2(items[j], pos)
                      /\ \A j \in near : j < found.port
                            => Dist2(items[found.port], pos) < Dist2(items[j], pos))
    /\ [][(found.called /\ find_port_near(found.items, found.pos)) => found' = found]_vars

\* two ports equally near the release point, both in the search square
C34_Witness ==
    /\ found.called
    /\ Len(found.items) = 2
    /\ found.port = 1
    /\ found.items[1] # found.items[2]
    /\ found.items[2].kind = "port"
    /\ InSearchRect(found.items[2], found.pos)
    /\ Dist2(found.items[1], found.pos) = Dist2(found.items[2], found.pos)

\* C35: whatever wheel events arrive, the zoom factor stays within [0.3, 3.0],
\* and a wheel event whose factor would leave that range changes neither the
\* zoom factor nor the scale of the view.
C35_ZoomClamped ==
    /\ [](ZoomMin <= zoom_factor /\ zoom_factor <= ZoomMax)
    /\ [][\A delta \in WheelDeltas :
             (/\ wheelEvent(delta)
              /\ \/ Times(zoom_factor, WheelFactor(delta)) < ZoomMin
                 \/ Times(zoom_factor, WheelFactor(delta)) > ZoomMax)
             => UNCHANGED zoom_vars]_vars

\* zoomed in so far that one more notch would pass 3.0
C35_Witness ==
    /\ zoom_factor > 1000
    /\ Times(zoom_factor, WheelFactor(120)) > ZoomMax

\* C36: zoom is not available while panning: a wheel event that arrives while
\* the view is panning leaves the zoom factor as it was.
C36_NoZoomWhilePanning ==
    [][\A delta \in WheelDeltas :
          (is_panning /\ wheelEvent(delta)) => zoom_factor' = zoom_factor]_vars

\* the graph: nodes with their parameters, connections and port lists
graph_vars == <<nodes, scene_nodes, conns, plist>>

\* the connection gesture of the scene
gesture_vars == <<temp_connection, temp_start_port, reconnecting, reconnect_connection,
                  reconnect_end>>

\* C37: a press of the middle or secondary button starts panning and does not
\* reach the scene, so it starts no connection and no reconnection, on a port
\* or elsewhere; a move while panning and the release that ends panning leave
\* nodes, connections, port lists and parameters unchanged, and after that
\* release the view is not panning.
C37_PanningLeavesGraph ==
    /\ [][\A p \in ScenePorts \cup {NoPort} : \A c \in LiveConns \cup {0} :
             \A e \in {"start", "end"} :
                view_mousePressEvent("right", p, c, e)
                => (is_panning' /\ UNCHANGED <<graph_vars, gesture_vars>>)]_vars
    /\ [][(is_panning /\ view_mouseMoveEvent) => UNCHANGED graph_vars]_vars
    /\ [][\A b \in Buttons : \A t \in ScenePorts \cup {NoPort} :
             (is_panning /\ view_mouseReleaseEvent(b, t))
             => (~is_panning' /\ UNCHANGED graph_vars)]_vars

\* the right button went down on a port during no gesture: the view pans and
\* the scene started no connection
C37_Witness ==
    /\ is_panning
    /\ is_connecting
    /\ ~mouse_down
    /\ ~temp_connection
    /\ ~reconnecting

\* C38: loading custom nodes replaces no registered kind: every kind registered
\* before the load, each built-in kind among them, still maps to the class it
\* mapped to; a custom kind is registered, with its custom class, only if its
\* name was not registered before; and the system kinds and the custom kinds
\* listed partition the registered kinds.
C38_LoadKeepsBuiltins ==
    /\ [][\A custom \in CustomDicts :
             load_custom_nodes(custom)
             => /\ \A k \in DOMAIN REGISTERED_NODES :
                       /\ k \in DOMAIN REGISTERED_NODES'
                       /\ REGISTERED_NODES'[k] = REGISTERED_NODES[k]
                /\ \A k \in BuiltinKinds :
                       REGISTERED_NODES[k] = BuiltinClass(k)
                       => REGISTERED_NODES'[k] = BuiltinClass(k)
                /\ \A k \in DOMAIN REGISTERED_NODES' \ DOMAIN REGISTERED_NODES :
                       k \in DOMAIN custom /\ REGISTERED_NODES'[k] = custom[k]]_vars
    /\ [](/\ list_system_nodes(REGISTERED_NODES) \cup list_custom_nodes(REGISTERED_NODES)
             = list_node_types(REGISTERED_NODES)
          /\ list_system_nodes(REGISTERED_NODES) \cap list_custom_nodes(REGISTERED_NODES) = {})

\* custom nodes were loaded from a dict that names the built-in kind "if":
\* my_custom is registered and "if" is still IfNode
C38_Witness ==
    /\ "my_custom" \in DOMAIN REGISTERED_NODES
    /\ REGISTERED_NODES["my_custom"] = "WhileLoopNode"
    /\ REGISTERED_NODES["if"] = "IfNode"
    /\ list_custom_nodes(REGISTERED_NODES) = {"my_custom"}

\* the branch outputs of the result that are not None
Taken(result) == { k \in DOMAIN result : result[k] # "None" }

\* the indices of the node's elif branches whose input is truthy
TruthyElifs(n, inputs) ==
    { i \in 0..(n - 1) : Truthy(GetInput(inputs, ElifSlot(i))) }

\* C39: IfNode.execute takes the first satisfied branch in the order condition,
\* elif_0, elif_1, ...: whatever the inputs, exactly one branch output of the
\* result is not None: out_true when condition is truthy, else out_elif_i for
\* the least i whose elif_i input is truthy, else out_false.
C39_FirstBranchWins ==
    executed.called
    => LET n == executed.elifs
           inputs == executed.inputs
           sat == TruthyElifs(n, inputs)
       IN Taken(executed.result) =
            IF Truthy(GetInput(inputs, "condition")) THEN {"out_true"}
            ELSE IF sat # {}
                 THEN {OutElifSlot(CHOOSE i \in sat : \A j \in sat : i <= j)}
                 ELSE {"out_false"}

\* both elif inputs are truthy and the condition is not: out_elif_0 is taken
C39_Witness ==
    /\ executed.called
    /\ executed.elifs = 2
    /\ ~Truthy(GetInput(executed.inputs, "condition"))
    /\ TruthyElifs(2, executed.inputs) = {0, 1}
    /\ Taken(executed.result) = {"out_elif_0"}

====
